---- MODULE Spec2Model ----
(***************************************************************************)
(* TRX payment-analytics dashboards: the geolocation resolver              *)
(* (GeolocationService and its providers, IPinfoBundleGeolocator, the      *)
(* IntegrationManager wiring) and the table transformations (success       *)
(* indicator, JSON body parsing, risk scoring).                            *)
(*                                                                         *)
(* Python values are written as strings: "None" is None, "{}" the empty    *)
(* dict, "NaN" a float NaN, a country code such as "US" stands for a       *)
(* location dict whose 'country' is that code.  Scores are kept in tenths  *)
(* (3.0 is 30) so that the weights 0.5, 1.5 and 2.5 stay integers.         *)
(***************************************************************************)
EXTENDS Integers, Sequences, FiniteSets, TLC

\* ------------------------------------------------------------------ bounds
\* Longest provider list handed to GeolocationService.
MaxProviders == 2
\* Most counted lookups (hits + misses) between two cache clears.
MaxLookups == 3
\* Most rows of a table.
MaxRows == 2

\* ------------------------------------------------------------------ values
NoneVal == "None"
EmptyDict == "{}"
Absent == "absent"
Raise == "raise"
Unseen == "unseen"
Countries == {"US", "DE"}

\* IP strings handed to GeolocationService.get_location.
IPs == {"", "8.8.8.8", " 8.8.8.8 "}
\* IP values handed to IPinfoBundleGeolocator.get_location.
BundleIPs == IPs \cup {"nan", "None"}
\* Cells of the dashboard's ip_address column: a string or a float NaN.
NaN == "NaN"
AddressCells == {"8.8.8.8", NaN}
\* Times are minutes since midnight of the first day; NaT is a missing time.
NaT == -1
\* A float NaN in a numeric column.
NumNaN == -999

\* Truthiness of a lookup result (`if location:`, `if not result:`).
Truthy(v) == v \notin {NoneVal, EmptyDict, ""}

\* location.get('country') on a result; None when there is no location.
CountryOf(v) == IF v \in Countries THEN v ELSE NoneVal

\* ------------------------------------------------------- geolocation providers
ProviderKinds == {"ipinfo", "csv", "mock", "ext"}
Provider(k, a) == [kind |-> k, available |-> a]

\* What the data source behind a provider does when asked: the MMDB reader
\* (reader.get), the CSV mapping (dict lookup), any other implementation of
\* the GeolocationProvider interface.
RawOutcomes(kind) ==
    CASE kind = "ipinfo" -> Countries \cup {NoneVal, Raise}
      [] kind = "csv"    -> Countries \cup {NoneVal}
      [] kind = "mock"   -> {"US"}
      [] OTHER           -> Countries \cup {NoneVal, Raise}

\* IPinfoGeolocationProvider.get_location: no reader or empty ip gives None,
\* a reader error is logged and gives None.
IPinfoProviderGetLocation(p, ip, raw) ==
    IF ~p.available \/ ip = "" THEN NoneVal
    ELSE IF raw = Raise THEN NoneVal
    ELSE IF Truthy(raw) THEN raw
    ELSE NoneVal

\* CSVGeolocationProvider.get_location.
CSVProviderGetLocation(p, ip, raw) == IF raw \in Countries THEN raw ELSE NoneVal

\* MockGeolocationProvider.get_location: always the same US location.
MockProviderGetLocation(p, ip, raw) == "US"

\* provider.get_location(ip) as the service sees it: a location, None, or an
\* exception leaving the call.
ProviderGetLocation(p, ip, raw) ==
    CASE p.kind = "ipinfo" -> IPinfoProviderGetLocation(p, ip, raw)
      [] p.kind = "csv"    -> CSVProviderGetLocation(p, ip, raw)
      [] p.kind = "mock"   -> MockProviderGetLocation(p, ip, raw)
      [] OTHER             -> raw

\* ------------------------------------------------------- IntegrationManager
PathStates == {"unset", "missing", "ok"}
Configs == [mmdb : PathStates, csv : PathStates]

\* IntegrationManager._initialize_services: the provider list handed to
\* GeolocationService.  A provider is appended only when its path is
\* configured and it reports itself available; with none, a mock is used.
InitializeServices(cfg) ==
    LET ipinfo == IF cfg.mmdb # "unset" /\ cfg.mmdb = "ok"
                  THEN <<Provider("ipinfo", TRUE)>> ELSE <<>>
        csv    == IF cfg.csv # "unset" /\ cfg.csv = "ok"
                  THEN <<Provider("csv", TRUE)>> ELSE <<>>
        geolocation_providers == ipinfo \o csv
    IN  IF geolocation_providers # <<>>
        THEN geolocation_providers
        ELSE <<Provider("mock", TRUE)>>

\* ------------------------------------------------------- GeolocationService
\* Line 163: `if ip in self._cache`.
CachedNever(c, ip) == FALSE
Cached(c, ip) == c[ip] # Absent

\* Lines 175 and 182: `self._cache[ip] = location` (a location or None).
StoreLocation(c, ip, location) ==
    IF Truthy(location) THEN [c EXCEPT ![ip] = location] ELSE c
StoreOnly(c, ip, location) == [k \in DOMAIN c |-> IF k = ip THEN location ELSE Absent]
Store(c, ip, location) == [c EXCEPT ![ip] = location]

RECURSIVE TryProviders(_, _, _, _)

\* Lines 177-179: a provider's exception is logged and the loop continues
\* with the next provider.
ProviderFailedAbort(provs, ip, raws, i) == Raise
ProviderFailed(provs, ip, raws, i) == TryProviders(provs, ip, raws, i + 1)

\* Lines 170-183: the provider loop of get_location on a cache miss; the
\* value that is cached and returned.
TryProviders(provs, ip, raws, i) ==
    IF i > Len(provs) THEN NoneVal
    ELSE IF ~provs[i].available THEN TryProviders(provs, ip, raws, i + 1)
    ELSE LET location == ProviderGetLocation(provs[i], ip, raws[i])
         IN  IF location = Raise THEN ProviderFailed(provs, ip, raws, i)
             ELSE IF Truthy(location) THEN location
             ELSE TryProviders(provs, ip, raws, i + 1)

\* The same outcomes with every exception replaced by a plain "not found".
AsMiss(raws) == [i \in DOMAIN raws |-> IF raws[i] = Raise THEN NoneVal ELSE raws[i]]

\* The providers the loop asks: the available ones up to the first that
\* returns a location.
Succeeds(provs, ip, raws, i) ==
    /\ provs[i].available
    /\ ProviderGetLocation(provs[i], ip, raws[i]) # Raise
    /\ Truthy(ProviderGetLocation(provs[i], ip, raws[i]))
Queried(provs, ip, raws) ==
    {i \in 1..Len(provs) :
        provs[i].available /\ \A j \in 1..(i - 1) : ~Succeeds(provs, ip, raws, j)}

RECURSIVE AskProviders(_, _, _, _)

\* Line 170: `if provider.is_available()`; a provider that is not available
\* is passed over without a call.
Skipped(provs, i) == ~provs[i].available

\* Line 174-176: `if location:` stores the location and returns, which ends
\* the loop.
ReturnsNever(provs, ip, raws, i) == FALSE
Returns(provs, ip, raws, i) ==
    LET location == ProviderGetLocation(provs[i], ip, raws[i])
    IN  location # Raise /\ Truthy(location)

\* Lines 169-179: the calls provider.get_location(ip) the loop makes on a
\* cache miss, as the list positions of the providers in the order called.
AskProviders(provs, ip, raws, i) ==
    IF i > Len(provs) THEN <<>>
    ELSE IF Skipped(provs, i) THEN AskProviders(provs, ip, raws, i + 1)
    ELSE IF Returns(provs, ip, raws, i) THEN <<i>>
    ELSE <<i>> \o AskProviders(provs, ip, raws, i + 1)

\* The calls as records of the provider called, the ip it was given and what
\* the call gave back (a location, None, or an exception).
Calls(provs, ip, raws, asked) ==
    [k \in DOMAIN asked |->
        [provider |-> asked[k], ip |-> ip,
         location |-> ProviderGetLocation(provs[asked[k]], ip, raws[asked[k]])]]

NonEmptyIPs == IPs \ {""}
EmptyCache == [ip \in NonEmptyIPs |-> Absent]
\* No provider was asked for any ip.
NoAsks == [ip \in NonEmptyIPs |-> [i \in 1..MaxProviders |-> 0]]
\* The counts after the calls of one lookup of ip.
CountAsks(a, ip, asked) ==
    [a EXCEPT ![ip] = [i \in 1..MaxProviders |->
                          @[i] + Cardinality({k \in DOMAIN asked : asked[k] = i})]]

\* ------------------------------------------------- IPinfoBundleGeolocator
\* str(ip).strip() and .lower() on the values of BundleIPs.
Strip(ip) == IF ip = " 8.8.8.8 " THEN "8.8.8.8" ELSE ip
Lower(ip) == IF ip = "None" THEN "none" ELSE ip

\* Lines 83-85: `except Exception` prints and returns {}.
BundleLookupFailedRaises(ip) == Raise
BundleLookupFailed(ip) == EmptyDict

\* IPinfoBundleGeolocator.get_location for a reader outcome.
BundleLookup(rd, ip, raw) ==
    IF rd = "none" \/ ip = "" THEN EmptyDict
    ELSE IF Strip(ip) = "" \/ Lower(Strip(ip)) \in {"nan", "none", ""} THEN EmptyDict
    ELSE IF raw = Raise THEN BundleLookupFailed(ip)
    ELSE IF ~Truthy(raw) THEN EmptyDict
    ELSE raw

\* Lines 43-48: the reader is queried with the trimmed ip, and only when the
\* reader opened and the ip passed the checks.
BundleCalls(rd, ip) ==
    IF rd = "none" \/ ip = "" THEN <<>>
    ELSE IF Strip(ip) = "" \/ Lower(Strip(ip)) \in {"nan", "none", ""} THEN <<>>
    ELSE <<[provider |-> 1, ip |-> Strip(ip)]>>

\* IPinfoBundleGeolocator.get_country: location.get('country').
BundleGetCountry(rd, ip, raw) == CountryOf(BundleLookup(rd, ip, raw))

\* create_geographic_analysis, lines 304-316: the ip_country written for one
\* ip_address cell, with the geolocator of init_ipinfo_geolocator or, when
\* that returned None, the fallback.
GeoAnalysisIpCountry(rd, cell, raw) ==
    IF rd = "open"
    THEN IF cell # NaN THEN BundleGetCountry(rd, cell, raw) ELSE "Unknown"
    ELSE IF cell = NaN THEN "Unknown" ELSE "US"

VARIABLES
    app,            \* which program runs: "service" or "dashboard"
    built,          \* "manager": service built by IntegrationManager; "direct"
    config,         \* the IntegrationManager's config
    providers,      \* GeolocationService.providers
    cache,          \* GeolocationService._cache (Absent: key not in the dict)
    cache_hits,     \* GeolocationService._cache_hits
    cache_misses,   \* GeolocationService._cache_misses
    reader,         \* IPinfoBundleGeolocator.reader: "none" or "open"
    op,             \* the last operation called
    arg,            \* its ip argument
    ret,            \* its return value
    caught,         \* whether a data source raised during the last operation
    answered,       \* per ip, what the last get_location of it returned
    fresh,          \* per ip, whether it was looked up since the last clear
    shadow_cache,   \* the cache of a run in which exceptions were misses
    shadow_ret,     \* the return value of that run
    queried,        \* the provider / reader calls of the last operation, in order
    asks            \* per ip and provider, the calls since the last clear

geoVars == <<app, built, config, providers, cache, cache_hits, cache_misses,
             reader, op, arg, ret, caught, answered, fresh, shadow_cache,
             shadow_ret, queried, asks>>

VARIABLES
    prog,           \* which table program runs ("none" while the resolver runs)
    fn,             \* the function last applied to the table
    cols,           \* df.columns
    df,             \* the table: a sequence of rows
    users,          \* per-user aggregates (user_velocity / user_patterns)
    raised,         \* the exception that left the last function, or "none"
    processing_stats \* EnhancedDataProcessor.processing_stats (the counters)

tabVars == <<prog, fn, cols, df, users, raised, processing_stats>>

\* EnhancedDataProcessor.__init__: the counters start at 0.
NoStats ==
    [total_processed |-> 0, successful_processed |-> 0, failed_processed |-> 0,
     processing_errors |-> <<>>]

vars == <<geoVars, tabVars>>

\* No table is loaded: the state of the table variables while the
\* geolocation resolver is exercised on its own.
TabIdle ==
    /\ prog = "none" /\ fn = "none" /\ cols = {} /\ df = <<>>
    /\ users = <<>> /\ raised = "none" /\ processing_stats = NoStats

\* Providers a caller constructs the service on: an MMDB provider whose
\* reader opened, and another implementation of the interface, available or
\* not (an unavailable provider of any kind is skipped the same way).
ProviderChoices ==
    {Provider("ipinfo", TRUE), Provider("ext", TRUE), Provider("ext", FALSE)}

ProviderLists ==
    UNION {[1..n -> ProviderChoices] : n \in 0..MaxProviders}

GeoIdle ==
    /\ op = "init" /\ arg = "" /\ ret = NoneVal /\ caught = FALSE
    /\ answered = [ip \in BundleIPs |-> Unseen]
    /\ fresh = [ip \in BundleIPs |-> FALSE]
    /\ cache = EmptyCache /\ shadow_cache = EmptyCache
    /\ cache_hits = 0 /\ cache_misses = 0
    /\ shadow_ret = NoneVal
    /\ queried = <<>> /\ asks = NoAsks

\* GeolocationService.__init__, reached through IntegrationManager.__init__
\* or by constructing the service on a provider list.
InitService ==
    /\ app = "service"
    /\ reader = "none"
    /\ \/ /\ built = "manager"
          /\ config \in Configs
          /\ providers = InitializeServices(config)
       \/ /\ built = "direct"
          /\ config = [mmdb |-> "unset", csv |-> "unset"]
          /\ providers \in ProviderLists
    /\ GeoIdle

\* IPinfoBundleGeolocator.__init__ / init_ipinfo_geolocator of the dashboard.
InitDashboard ==
    /\ app = "dashboard"
    /\ built = "direct"
    /\ config = [mmdb |-> "unset", csv |-> "unset"]
    /\ providers = <<>>
    /\ reader \in {"none", "open"}
    /\ GeoIdle

\* The fields of the service that a lookup reads and writes.
ServiceState ==
    [cache |-> cache, shadow_cache |-> shadow_cache, cache_hits |-> cache_hits,
     cache_misses |-> cache_misses, asks |-> asks, answered |-> answered,
     fresh |-> fresh, ret |-> ret, shadow_ret |-> shadow_ret,
     caught |-> caught, queried |-> <<>>]

\* GeolocationService.get_location(ip), lines 157-183, on the service in
\* state st; raws are the data sources' outcomes at the time of the call.
\* The calls made are appended to st.queried.
Lookup(st, provs, ip, raws) ==
    LET out ==
          IF ip = ""
          THEN [st EXCEPT !.ret = NoneVal, !.shadow_ret = NoneVal, !.caught = FALSE]
          ELSE IF Cached(st.cache, ip)
          THEN [st EXCEPT !.cache_hits = @ + 1,
                          !.ret = st.cache[ip],
                          !.shadow_ret = st.shadow_cache[ip],
                          !.caught = FALSE]
          ELSE LET location == TryProviders(provs, ip, raws, 1)
                   shadow == TryProviders(provs, ip, AsMiss(raws), 1)
                   asked == AskProviders(provs, ip, raws, 1)
               IN  [st EXCEPT !.cache_misses = @ + 1,
                              !.cache = Store(@, ip, location),
                              !.ret = location,
                              !.shadow_cache = Store(@, ip, shadow),
                              !.shadow_ret = shadow,
                              !.queried = @ \o Calls(provs, ip, raws, asked),
                              !.asks = CountAsks(@, ip, asked),
                              !.caught = \E i \in Queried(provs, ip, raws) :
                                            raws[i] = Raise]
    IN  [out EXCEPT !.answered[ip] = out.ret, !.fresh[ip] = TRUE]

\* GeolocationService.get_location(ip); raws are the data sources' outcomes
\* at the time of the call.
GetLocation(ip, raws) ==
    /\ app = "service"
    /\ cache_hits + cache_misses < MaxLookups
    /\ op' = "get_location" /\ arg' = ip
    /\ \E st \in {Lookup(ServiceState, providers, ip, raws)} :
           /\ cache' = st.cache /\ shadow_cache' = st.shadow_cache
           /\ cache_hits' = st.cache_hits /\ cache_misses' = st.cache_misses
           /\ asks' = st.asks /\ queried' = st.queried
           /\ ret' = st.ret /\ shadow_ret' = st.shadow_ret /\ caught' = st.caught
           /\ answered' = st.answered /\ fresh' = st.fresh
    /\ UNCHANGED <<app, built, config, providers, reader>>
    /\ UNCHANGED tabVars

RECURSIVE Unique(_)
\* df[ip_column].dropna().unique(): the distinct cells that are not null, in
\* the order of their first row.
Unique(cells) ==
    IF cells = <<>> THEN <<>>
    ELSE LET before == Unique(SubSeq(cells, 1, Len(cells) - 1))
             cell == cells[Len(cells)]
         IN  IF cell = NaN \/ \E k \in DOMAIN before : before[k] = cell
             THEN before ELSE Append(before, cell)

RECURSIVE LookupAll(_, _, _, _)
\* Lines 204-205: get_location for each unique ip in turn.
LookupAll(st, provs, ips, raws) ==
    IF ips = <<>> THEN st
    ELSE LookupAll(Lookup(st, provs, Head(ips), raws), provs, Tail(ips), raws)

\* Lines 206-210: the ip_country column after the loop.  The column exists
\* once a location was written to it; the rows of an ip without a location
\* stay empty.
EnrichedColumn(cells, c) ==
    LET located(cell) == cell \in NonEmptyIPs /\ c[cell] # Absent /\ Truthy(c[cell])
    IN  [i \in DOMAIN cells |->
            IF \A k \in DOMAIN cells : ~located(cells[k]) THEN Absent
            ELSE IF located(cells[i]) THEN CountryOf(c[cells[i]])
            ELSE NaN]

\* GeolocationService.enrich_dataframe(df) on a table whose ip_address
\* column holds cells; raws are the data sources' outcomes during the call.
\* Returns the table; ret is its ip_country column.
EnrichDataframe(cells, raws) ==
    /\ app = "service"
    /\ cache_hits + cache_misses + Len(Unique(cells)) <= MaxLookups
    /\ op' = "enrich_dataframe" /\ arg' = ""
    /\ \E st \in {LookupAll(ServiceState, providers, Unique(cells), raws)} :
           /\ cache' = st.cache /\ shadow_cache' = st.shadow_cache
           /\ cache_hits' = st.cache_hits /\ cache_misses' = st.cache_misses
           /\ asks' = st.asks /\ queried' = st.queried
           /\ answered' = st.answered /\ fresh' = st.fresh
           /\ caught' = (Unique(cells) # <<>> /\ st.caught)
           /\ ret' = EnrichedColumn(cells, st.cache)
           /\ shadow_ret' = EnrichedColumn(cells, st.shadow_cache)
    /\ UNCHANGED <<app, built, config, providers, reader>>
    /\ UNCHANGED tabVars

\* A clear that resets the two counters and keeps the entries.
ClearedCountersOnly ==
    /\ cache_hits' = 0
    /\ cache_misses' = 0
    /\ ret' = NoneVal /\ shadow_ret' = NoneVal /\ arg' = "" /\ caught' = FALSE
    /\ queried' = <<>>
    /\ UNCHANGED <<app, built, config, providers, reader, answered, fresh,
                   cache, shadow_cache, asks>>
    /\ UNCHANGED tabVars

\* The effect of GeolocationService.clear_cache.
Cleared ==
    /\ cache' = EmptyCache
    /\ shadow_cache' = EmptyCache
    /\ cache_hits' = 0
    /\ cache_misses' = 0
    /\ fresh' = [ip \in BundleIPs |-> FALSE]
    /\ ret' = NoneVal /\ shadow_ret' = NoneVal /\ arg' = "" /\ caught' = FALSE
    /\ queried' = <<>> /\ asks' = NoAsks
    /\ UNCHANGED <<app, built, config, providers, reader, answered>>
    /\ UNCHANGED tabVars

\* GeolocationService.clear_cache().
ClearCache ==
    /\ app = "service"
    /\ op' = "clear_cache"
    /\ Cleared

\* IntegrationManager.clear_caches(): clears the geolocation service's cache.
ClearCaches ==
    /\ app = "service" /\ built = "manager"
    /\ op' = "clear_caches"
    /\ Cleared

\* The methods of the GeolocationService class.
GeolocationServiceMethods ==
    {"get_location", "get_country", "get_asn", "enrich_dataframe",
     "get_cache_stats", "clear_cache"}

\* get_system_status, lines 248-252: the entry of status['services'] for a
\* service: its is_available() when the class has the method, else True.
ServiceStatus(methods) ==
    IF "is_available" \in methods THEN "is_available()" ELSE "True"

\* IntegrationManager.get_system_status(): the status entry of the
\* geolocation service.
GetSystemStatus ==
    /\ app = "service" /\ built = "manager"
    /\ op' = "get_system_status" /\ arg' = ""
    /\ ret' = ServiceStatus(GeolocationServiceMethods)
    /\ shadow_ret' = ret'
    /\ caught' = FALSE
    /\ queried' = <<>>
    /\ UNCHANGED <<app, built, config, providers, reader, cache, shadow_cache,
                   cache_hits, cache_misses, answered, fresh, asks>>
    /\ UNCHANGED tabVars

\* IPinfoBundleGeolocator.get_location(ip); raw is the reader's outcome.
BundleGetLocation(ip, raw) ==
    /\ app = "dashboard"
    /\ op' = "bundle_get_location" /\ arg' = ip
    /\ ret' = BundleLookup(reader, ip, raw)
    /\ shadow_ret' = BundleLookup(reader, ip, IF raw = Raise THEN NoneVal ELSE raw)
    /\ caught' = (raw = Raise /\ BundleLookup(reader, ip, "US") = "US")
    /\ answered' = [answered EXCEPT ![ip] = ret']
    /\ fresh' = [fresh EXCEPT ![ip] = TRUE]
    /\ queried' = BundleCalls(reader, ip)
    /\ UNCHANGED <<app, built, config, providers, reader, cache, shadow_cache,
                   cache_hits, cache_misses, asks>>
    /\ UNCHANGED tabVars

\* create_geographic_analysis filling ip_country for one ip_address cell.
GeoAnalysis(cell, raw) ==
    /\ app = "dashboard"
    /\ op' = "ip_country" /\ arg' = cell
    /\ ret' = GeoAnalysisIpCountry(reader, cell, raw)
    /\ shadow_ret' = GeoAnalysisIpCountry(reader, cell, IF raw = Raise THEN NoneVal ELSE raw)
    /\ caught' = (raw = Raise /\ reader = "open" /\ cell # NaN)
    /\ queried' = IF reader = "open" /\ cell # NaN
                  THEN BundleCalls(reader, cell) ELSE <<>>
    /\ UNCHANGED <<app, built, config, providers, reader, cache, shadow_cache,
                   cache_hits, cache_misses, answered, fresh, asks>>
    /\ UNCHANGED tabVars

\* The outcomes the data sources of a provider list can produce for one call;
\* the source of a provider that is not available has nothing to produce.
RawVectors(provs) ==
    {raws \in [1..Len(provs) -> Countries \cup {NoneVal, Raise}] :
        \A i \in 1..Len(provs) :
            raws[i] \in (IF provs[i].available THEN RawOutcomes(provs[i].kind)
                         ELSE {NoneVal})}

\* The data sources are asked only on a cache miss of a non-empty ip.
LookupInputs(ip) ==
    IF ip # "" /\ ~Cached(cache, ip)
    THEN RawVectors(providers)
    ELSE {[i \in 1..Len(providers) |-> NoneVal]}

\* The ip_address columns given to enrich_dataframe.
AddressColumns == UNION {[1..n -> AddressCells] : n \in 1..MaxRows}

\* The data sources are asked only when the column holds an ip that is not
\* in the cache.
EnrichInputs(cells) ==
    IF \E k \in DOMAIN cells : cells[k] \in NonEmptyIPs /\ ~Cached(cache, cells[k])
    THEN RawVectors(providers)
    ELSE {[i \in 1..Len(providers) |-> NoneVal]}

\* The reader is asked only for an ip that passes the checks before the query.
ReaderInputs(ip) ==
    IF BundleLookup(reader, ip, "US") = "US"
    THEN RawOutcomes("ipinfo")
    ELSE {NoneVal}

SpecGeoInit == (InitService \/ InitDashboard) /\ TabIdle

SpecGeoNext ==
    \/ \E ip \in IPs : \E raws \in LookupInputs(ip) : GetLocation(ip, raws)
    \/ ClearCache
    \/ ClearCaches
    \/ GetSystemStatus
    \/ \E ip \in BundleIPs : \E raw \in ReaderInputs(ip) : BundleGetLocation(ip, raw)
    \/ \E cell \in AddressCells : \E raw \in RawOutcomes("ipinfo") : GeoAnalysis(cell, raw)

SpecGeo == SpecGeoInit /\ [][SpecGeoNext]_vars

\* Tables are enriched by the service the IntegrationManager built, or by a
\* service constructed on at most one provider.
InitEnrich ==
    /\ app = "service"
    /\ reader = "none"
    /\ \/ /\ built = "manager"
          /\ config \in Configs
          /\ providers = InitializeServices(config)
       \/ /\ built = "direct"
          /\ config = [mmdb |-> "unset", csv |-> "unset"]
          /\ providers \in {<<>>} \cup {<<p>> : p \in ProviderChoices}
    /\ GeoIdle
    /\ TabIdle

SpecEnrichNext ==
    \/ \E ip \in IPs : \E raws \in LookupInputs(ip) : GetLocation(ip, raws)
    \/ \E cells \in AddressColumns : \E raws \in EnrichInputs(cells) :
          EnrichDataframe(cells, raws)
    \/ ClearCache

SpecEnrich == InitEnrich /\ [][SpecEnrichNext]_vars

\* ------------------------------------------------------------ claims C1, C6-C8
Lookups == {"get_location", "bundle_get_location"}

DatabaseAbsent ==
    \/ app = "service" /\ built = "manager" /\ config.mmdb # "ok" /\ config.csv # "ok"
    \/ app = "dashboard" /\ reader = "none"

\* C6: with the geolocation database absent every lookup returns an empty
\* result, and no country is attributed to an ip.
C6_AbsentDatabaseLookupsEmpty ==
    (DatabaseAbsent /\ op \in Lookups \cup {"ip_country"})
        => ret \in {NoneVal, EmptyDict, "Unknown"}

\* C7: a data source that raises is treated as one that did not find the ip:
\* the value returned and the cache are those of the run in which every
\* exception was a "not found".
C7_ExceptionIsMiss == ret = shadow_ret /\ cache = shadow_cache

\* C7 witness: a provider raised during a lookup, the next provider was still
\* asked and its location was returned and cached.
C7_Witness ==
    /\ op = "get_location" /\ caught /\ Truthy(ret) /\ cache[arg] = ret

\* C8 as stated: a cache entry, once present, stays with the same value under
\* every operation.
C8_NeverEvicted ==
    [][\A ip \in NonEmptyIPs : cache[ip] # Absent => cache'[ip] = cache[ip]]_vars

\* C8 amended: a cache entry, once present, stays with the same value under
\* every operation other than clear_cache / clear_caches.
C8_KeptUntilCleared ==
    [][op' \notin {"clear_cache", "clear_caches"}
          => \A ip \in NonEmptyIPs : cache[ip] # Absent => cache'[ip] = cache[ip]]_vars

\* C8 witness: two ips are cached, one with a negative result, and a lookup
\* was served from the cache.
C8_Witness ==
    /\ op = "get_location" /\ cache_hits >= 1
    /\ \A ip \in NonEmptyIPs : cache[ip] # Absent
    /\ \E ip \in NonEmptyIPs : cache[ip] = NoneVal

\* ------------------------------------------------------------ claim C14
\* C14: with the geolocation database absent, the status that
\* get_system_status exposes for the geolocation service is "not available".
C14_AbsentDatabaseReportedUnavailable ==
    (DatabaseAbsent /\ op = "get_system_status") => ret = "False"

\* ------------------------------------------------------------ claims C13, C18-C20
\* An ip that is empty, 'nan' or 'none' once trimmed.
Rejected(ip) == Lower(Strip(ip)) \in {"", "nan", "none"}

\* C13: a lookup of an ip that is empty, 'nan' or 'none' after trimming
\* returns an empty result and queries no database or provider, and every
\* query a lookup makes carries the trimmed ip.
C13_TrimsAndRejects ==
    op \in Lookups =>
        /\ Rejected(arg) => (ret \in {NoneVal, EmptyDict} /\ queried = <<>>)
        /\ \A k \in DOMAIN queried : queried[k].ip = Strip(arg)

\* C18: once a lookup of an ip returned None, every later lookup of that ip
\* before the next clear returns None and calls no provider, whatever the
\* providers would answer by then.
C18_NegativeResultsCached ==
    [][\A ip \in IPs :
          (fresh[ip] /\ answered[ip] = NoneVal /\ op' = "get_location" /\ arg' = ip)
              => (ret' = NoneVal /\ queried' = <<>>)]_vars

\* C18 witness: a provider was asked for an ip and gave no location, and a
\* later lookup of the ip returned None from the cache without a call.
C18_Witness ==
    /\ op = "get_location" /\ arg \in NonEmptyIPs /\ cache_hits >= 1
    /\ ret = NoneVal /\ queried = <<>>
    /\ \E i \in 1..Len(providers) : asks[arg][i] = 1

\* C19: on a cache miss get_location calls the providers in list order: only
\* available ones, each one after the earlier ones gave no location, none
\* after the first that gave one, and it returns that location (None when
\* no provider gave one).
C19_ProvidersInListOrder ==
    [][(op' = "get_location" /\ cache_misses' = cache_misses + 1) =>
          LET q == queried'
              available == {i \in 1..Len(providers) : providers[i].available}
              Located(k) == q[k].location # Raise /\ Truthy(q[k].location)
          IN  /\ \A k \in DOMAIN q : q[k].provider \in available
              /\ \A k \in 1..(Len(q) - 1) :
                    q[k].provider < q[k + 1].provider /\ ~Located(k)
              /\ \A i \in available :
                    (\A k \in DOMAIN q : q[k].provider # i)
                        => \E k \in DOMAIN q : q[k].provider < i /\ Located(k)
              /\ ret' = IF q # <<>> /\ Located(Len(q))
                        THEN q[Len(q)].location ELSE NoneVal]_vars

\* C19 witness: the first provider gave no location, the second was asked
\* next and its location was returned.
C19_Witness ==
    /\ op = "get_location" /\ Len(queried) = 2
    /\ queried[1].provider = 1 /\ queried[2].provider = 2
    /\ queried[1].location \in {NoneVal, Raise}
    /\ Truthy(ret) /\ ret = queried[2].location

\* C20: since the last clear no provider was asked more than once for the
\* location of one ip, however often the ip was looked up and however many
\* rows of an enriched table carry it.
C20_AskedAtMostOnce ==
    \A ip \in NonEmptyIPs : \A i \in 1..MaxProviders : asks[ip][i] <= 1

\* C20 witness: a table with two rows of one ip was enriched from the cache,
\* after the one call a provider got for that ip.
C20_Witness ==
    /\ op = "enrich_dataframe" /\ cache_hits >= 1 /\ queried = <<>>
    /\ Len(ret) >= 2 /\ ret[1] \in Countries /\ ret[2] \in Countries
    /\ \E i \in 1..Len(providers) : asks["8.8.8.8"][i] = 1

\* ------------------------------------------------------------ claims C21, C22
\* GeolocationService.get_cache_stats() on a service with cache c and the two
\* counters: the number of entries and the counters (hit_rate, the quotient
\* cache_hits / total_requests, is left out).
GetCacheStats(c, hits, misses) ==
    [cache_size |-> Cardinality({ip \in NonEmptyIPs : c[ip] # Absent}),
     cache_hits |-> hits,
     cache_misses |-> misses,
     total_requests |-> hits + misses]

\* C21: between clears the reported cache_size equals cache_misses, and a
\* get_location call with a non-empty ip increments exactly one of
\* cache_hits and cache_misses: a miss adds exactly one cache entry, a hit
\* adds none.
C21_CacheSizeEqualsMisses ==
    /\ [](app = "service" =>
            LET stats == GetCacheStats(cache, cache_hits, cache_misses)
            IN  stats.cache_size = stats.cache_misses)
    /\ [][(op' = "get_location" /\ arg' # "") =>
            LET before == GetCacheStats(cache, cache_hits, cache_misses)
                after == GetCacheStats(cache', cache_hits', cache_misses')
            IN  \/ /\ after.cache_hits = before.cache_hits + 1
                   /\ after.cache_misses = before.cache_misses
                   /\ after.cache_size = before.cache_size
                \/ /\ after.cache_hits = before.cache_hits
                   /\ after.cache_misses = before.cache_misses + 1
                   /\ after.cache_size = before.cache_size + 1]_vars

\* C21 witness: two misses left two entries, one of them negative, and a
\* third lookup was a hit.
C21_Witness ==
    /\ app = "service" /\ op = "get_location" /\ arg # ""
    /\ cache_hits = 1 /\ cache_misses = 2
    /\ GetCacheStats(cache, cache_hits, cache_misses).cache_size = 2
    /\ \E ip \in NonEmptyIPs : cache[ip] = NoneVal
    /\ \E ip \in NonEmptyIPs : Truthy(cache[ip])

\* The operations that clear the service's cache.
Clears == {"clear_cache", "clear_caches"}

\* C22: immediately after clear_cache (or the manager's clear_caches) the
\* reported cache_size, cache_hits and cache_misses are 0 as after
\* construction, and the next lookup of an ip that was cached before is
\* counted as a miss and calls the first available provider again.
C22_ClearRestoresInitialState ==
    /\ [](op \in Clears =>
            LET stats == GetCacheStats(cache, cache_hits, cache_misses)
            IN  /\ stats.cache_size = 0
                /\ stats.cache_hits = 0
                /\ stats.cache_misses = 0
                /\ cache = EmptyCache)
    /\ [][\A ip \in NonEmptyIPs :
            (op \in Clears /\ answered[ip] # Unseen
                /\ op' = "get_location" /\ arg' = ip) =>
               /\ cache_misses' = 1 /\ cache_hits' = 0
               /\ \A i \in 1..Len(providers) :
                     (providers[i].available
                         /\ \A j \in 1..(i - 1) : ~providers[j].available)
                     => (queried' # <<>> /\ queried'[1].provider = i
                            /\ queried'[1].ip = ip)]_vars

\* C22 witness: a cache that held a located ip was cleared.
C22_Witness ==
    /\ op \in Clears
    /\ \E ip \in NonEmptyIPs : Truthy(answered[ip])
    /\ \E i \in 1..Len(providers) : providers[i].available

\* ================================================================ tables
\* The resolver is not running while a table program is exercised.
GeoOff ==
    /\ app = "none" /\ built = "direct"
    /\ config = [mmdb |-> "unset", csv |-> "unset"]
    /\ providers = <<>>
    /\ GeoIdle

\* Python booleans in a column.
Bool(b) == IF b THEN "True" ELSE "False"

\* pd.isna / pd.notna of a cell.
IsNull(v) == v \in {NoneVal, NaN}

\* All tables of 1..MaxRows rows drawn from a row set.
Tables(rows) == UNION {[1..n -> rows] : n \in 1..MaxRows}

\* df[col] = vals, row by row.
SetCol(d, col, vals) == [i \in DOMAIN d |-> [d[i] EXCEPT ![col] = vals[i]]]

\* ------------------------------------------------------- success indicator
StatusTitles == {"Failed", "Success"}
StatusValues == {"success", "failed"}
StatusColumnSets == SUBSET {"status_title", "is_final", "status"}

StatusRows(c) ==
    [status_title  : IF "status_title" \in c THEN StatusTitles ELSE {Absent},
     is_final      : IF "is_final" \in c THEN {"True", "False"} ELSE {Absent},
     status        : IF "status" \in c THEN StatusValues ELSE {Absent},
     is_successful : {Absent}]

\* EnhancedDataProcessor._transform_data, lines 173-180: the success
\* indicator of one row (Absent: the column is not created).
TransformDataIsSuccessful(c, row) ==
    IF "status_title" \in c /\ "is_final" \in c
    THEN Bool(row.status_title # "Failed" /\ row.is_final = "True")
    ELSE IF "status" \in c
    THEN Bool(row.status = "success")
    ELSE Absent

\* load_and_process_data, lines 97-101.
LoadAndProcessIsSuccessful(c, row) ==
    IF "status_title" \in c
    THEN Bool(row.status_title # "Failed")
    ELSE "True"

\* prepare_data_for_analysis, lines 226-230.
PrepareDataIsSuccessful(c, row) ==
    IF "status_title" \in c
    THEN Bool(row.status_title # "Failed")
    ELSE Absent

InitStatus ==
    /\ prog = "status" /\ fn = "none" /\ raised = "none" /\ users = <<>>
    /\ processing_stats = NoStats
    /\ cols \in StatusColumnSets
    /\ df \in Tables(StatusRows(cols))
    /\ reader = "none"
    /\ GeoOff

\* The columns after a function that may have added is_successful.
WithIsSuccessful(c, d) ==
    IF \E i \in DOMAIN d : d[i].is_successful # Absent
    THEN c \cup {"is_successful"} ELSE c

\* EnhancedDataProcessor._transform_data.
TransformData ==
    /\ prog = "status" /\ fn = "none"
    /\ fn' = "_transform_data"
    /\ df' = SetCol(df, "is_successful",
                    [i \in DOMAIN df |-> TransformDataIsSuccessful(cols, df[i])])
    /\ cols' = WithIsSuccessful(cols, df')
    /\ UNCHANGED <<prog, users, raised, processing_stats>>
    /\ UNCHANGED geoVars

\* load_and_process_data of the dashboard.
LoadAndProcessData ==
    /\ prog = "status" /\ fn = "none"
    /\ fn' = "load_and_process_data"
    /\ df' = SetCol(df, "is_successful",
                    [i \in DOMAIN df |-> LoadAndProcessIsSuccessful(cols, df[i])])
    /\ cols' = WithIsSuccessful(cols, df')
    /\ UNCHANGED <<prog, users, raised, processing_stats>>
    /\ UNCHANGED geoVars

\* prepare_data_for_analysis of the comprehensive analysis.
PrepareDataForAnalysis ==
    /\ prog = "status" /\ fn = "none"
    /\ fn' = "prepare_data_for_analysis"
    /\ df' = SetCol(df, "is_successful",
                    [i \in DOMAIN df |-> PrepareDataIsSuccessful(cols, df[i])])
    /\ cols' = WithIsSuccessful(cols, df')
    /\ UNCHANGED <<prog, users, raised, processing_stats>>
    /\ UNCHANGED geoVars

SpecStatusNext ==
    \/ TransformData
    \/ LoadAndProcessData
    \/ PrepareDataForAnalysis

SpecStatus == InitStatus /\ [][SpecStatusNext]_vars

\* C4: in every table for which is_successful was derived, a row whose
\* status_title is 'Failed' has is_successful False, whichever of the columns
\* is_final and status the table has and whatever they hold.
C4_FailedIsNeverSuccessful ==
    (prog = "status" /\ "status_title" \in cols /\ "is_successful" \in cols)
        => \A i \in DOMAIN df :
              df[i].status_title = "Failed" => df[i].is_successful = "False"

\* C26: in every table that has an is_final column and for which
\* is_successful was derived, a row whose is_final is false is not
\* successful, whatever its status_title and status.
C26_NotFinalIsNeverSuccessful ==
    (prog = "status" /\ "is_final" \in cols /\ "is_successful" \in cols)
        => \A i \in DOMAIN df :
              df[i].is_final = "False" => df[i].is_successful = "False"

\* ----------------------------------------------------------- JSON bodies
\* A parsed JSON value.
JNone == [t |-> "none"]
JInt == [t |-> "int"]
JList == [t |-> "list"]
JStr(v) == [t |-> "str", v |-> v]
JDict(kv) == [t |-> "dict", kv |-> kv]
\* A column that has not been written yet.
JAbsent == [t |-> "absent"]

\* The outcome of a call: a returned value or a raised exception.
Ok(v) == [exc |-> "none", val |-> v]
Err(e) == [exc |-> e, val |-> JNone]

\* try: r except <catches>: return default
Try(r, catches, default) == IF r.exc \in catches THEN Ok(default) ELSE r

\* `except Exception` and the bare `except:`.
AnyException ==
    {"JSONDecodeError", "KeyError", "TypeError", "AttributeError",
     "RecursionError", "ValueError"}

\* Cells of a body column: None, float NaN, the number 5, and strings.
Int5 == "int:5"
FullBody == "{\"ip\":\"8.8.8.8\",\"email\":\"a@x.io\",\"billing\":{\"country\":\"US\"},\"card\":{\"binCountryIso\":\"US\"},\"browser\":{\"userAgent\":\"curl/8.0\"}}"
OddBody == "{\"browser\":\"x\",\"card\":7,\"ip\":null}"
BinCountries == {"US", "RU", "XX"}
BinBody(c) == "{\"card\":{\"binCountryIso\":\"" \o c \o "\"}}"
\* A body of 100000 opening brackets, written short here: the decoder runs out
\* of stack on it.
DeepBody == "[[[[[[[[..."
\* A body whose email member is a 5000-digit integer: the decoder refuses to
\* convert it.
HugeIntBody == "{\"email\":1111...}"
\* User agents: an ordinary browser and five tools, some written with capitals.
UserAgents ==
    {"Mozilla/5.0", "curl/8.0", "Python-urllib/3.9", "HeadlessChrome/120",
     "Selenium", "Googlebot/2.1"}
\* A body whose only member is browser.userAgent.
UaBody(ua) == "{\"browser\":{\"userAgent\":\"" \o ua \o "\"}}"
\* Bodies that carry the ip under client_ip, client.ip and
\* request.ip_address, and one that carries none.
ClientIpBody == "{\"client_ip\":\"8.8.8.8\"}"
NestedClientBody == "{\"client\":{\"ip\":\"1.1.1.1\"}}"
RequestIpBody == "{\"request\":{\"ip_address\":\"2.2.2.2\"}}"
NoIpBody == "{\"no_ip\":\"data\"}"
IpBodies == {ClientIpBody, NestedClientBody, RequestIpBody, NoIpBody}
InvalidJson == {"", "   ", "not json", "{bad", DeepBody}
Bodies ==
    {NoneVal, NaN, Int5} \cup InvalidJson
        \cup {"{}", "[1]", "5", "null", FullBody, OddBody, HugeIntBody}
        \cup IpBodies

\* isinstance(val, str)
IsStr(val) == val \notin {NoneVal, NaN, Int5}
\* str(val)
PyStr(val) ==
    CASE val = Int5 -> "5"
      [] val = NaN  -> "nan"
      [] OTHER      -> val
\* s.strip()
StripText(s) == IF s = "   " THEN "" ELSE s
\* s.startswith("{") or s.startswith("[")
StartsWithBracket(s) ==
    s \in {"{bad", "{}", "[1]", FullBody, OddBody, DeepBody, HugeIntBody}
            \cup {BinBody(c) : c \in BinCountries}
            \cup {UaBody(ua) : ua \in UserAgents}
            \cup IpBodies

\* json.loads(s) for a string s: the parsed value, JSONDecodeError for text
\* that is not JSON, RecursionError for nesting deeper than the interpreter's
\* stack, ValueError for an integer longer than the interpreter converts.
JsonLoads(s) ==
    CASE s = "{}"   -> Ok(JDict(<<>>))
      [] s = DeepBody    -> Err("RecursionError")
      [] s = HugeIntBody -> Err("ValueError")
      [] s = "[1]"  -> Ok(JList)
      [] s = "5"    -> Ok(JInt)
      [] s = "null" -> Ok(JNone)
      [] s = FullBody ->
            Ok(JDict([ip      |-> JStr("8.8.8.8"),
                      email   |-> JStr("a@x.io"),
                      billing |-> JDict([country |-> JStr("US")]),
                      card    |-> JDict([binCountryIso |-> JStr("US")]),
                      browser |-> JDict([userAgent |-> JStr("curl/8.0")])]))
      [] s = OddBody ->
            Ok(JDict([browser |-> JStr("x"), card |-> JInt, ip |-> JNone]))
      [] \E c \in BinCountries : s = BinBody(c) ->
            Ok(JDict([card |-> JDict([binCountryIso |->
                        JStr(CHOOSE c \in BinCountries : s = BinBody(c))])]))
      [] \E ua \in UserAgents : s = UaBody(ua) ->
            Ok(JDict([browser |-> JDict([userAgent |->
                        JStr(CHOOSE ua \in UserAgents : s = UaBody(ua))])]))
      [] s = ClientIpBody -> Ok(JDict([client_ip |-> JStr("8.8.8.8")]))
      [] s = NestedClientBody -> Ok(JDict([client |-> JDict([ip |-> JStr("1.1.1.1")])]))
      [] s = RequestIpBody ->
            Ok(JDict([request |-> JDict([ip_address |-> JStr("2.2.2.2")])]))
      [] s = NoIpBody -> Ok(JDict([no_ip |-> JStr("data")]))
      [] OTHER -> Err("JSONDecodeError")

\* obj.get(key, default): only a dict has .get.
PyGet(obj, key, default) ==
    IF obj.t = "dict"
    THEN Ok(IF key \in DOMAIN obj.kv THEN obj.kv[key] ELSE default)
    ELSE Err("AttributeError")

\* str(current) of a parsed value.
JText(j) ==
    CASE j.t = "str"  -> j.v
      [] j.t = "int"  -> "7"
      [] j.t = "list" -> "[1]"
      [] j.t = "dict" -> "{...}"
      [] OTHER        -> NoneVal

\* text.lower()
LowerText(text) ==
    CASE text = "Python-urllib/3.9"  -> "python-urllib/3.9"
      [] text = "HeadlessChrome/120" -> "headlesschrome/120"
      [] text = "Selenium"           -> "selenium"
      [] text = "Googlebot/2.1"      -> "googlebot/2.1"
      [] OTHER                       -> text
\* pattern in text, for the words the pattern lists hold.
Contains(text, pattern) ==
    \/ text = "curl/8.0" /\ pattern = "curl"
    \/ text = "python-urllib/3.9" /\ pattern = "python"
    \/ text = "headlesschrome/120" /\ pattern = "headless"
    \/ text = "selenium" /\ pattern = "selenium"
    \/ text \in {"Googlebot/2.1", "googlebot/2.1"} /\ pattern = "bot"

\* fraud_detection_app.try_parse_json.
TryParseJson(val) ==
    IF val \in {NoneVal, NaN} THEN Ok(JNone)
    ELSE LET s == StripText(PyStr(val))
         IN  IF s = "" \/ ~StartsWithBracket(s) THEN Ok(JNone)
             ELSE Try(JsonLoads(s), AnyException, JNone)

\* extract_from_body, the loop of lines 139-143: follow the keys while the
\* current value is a dict holding the key; None otherwise.
RECURSIVE WalkPath(_, _)
WalkPath(current, keys) ==
    IF keys = <<>> THEN current
    ELSE IF current.t = "dict" /\ Head(keys) \in DOMAIN current.kv
         THEN WalkPath(current.kv[Head(keys)], Tail(keys))
         ELSE JNone

\* The exceptions extract_from_body catches (line 146).
ExtractFromBodyCaught == {"JSONDecodeError", "KeyError", "TypeError"}

\* EnhancedDataProcessor._extract_body_data.extract_from_body.
ExtractFromBody(body_str, keys) ==
    IF body_str \in {NoneVal, ""} \/ ~IsStr(body_str) THEN Ok(NoneVal)
    ELSE LET body_data == JsonLoads(body_str)
         IN  Try(IF body_data.exc # "none" THEN body_data
                 ELSE Ok(JText(WalkPath(body_data.val, keys))),
                 ExtractFromBodyCaught, NoneVal)

\* extraction_fields, lines 149-161 (the fields this model follows).
ExtractionFields ==
    [browser_user_agent |-> <<"browser", "userAgent">>,
     card_bin_country   |-> <<"card", "binCountryIso">>,
     billing_country    |-> <<"billing", "country">>,
     user_email         |-> <<"email">>]

\* ultimate_payment_analysis_dashboard.extract_ip_from_json (the second
\* definition, which is the one bound to the name).
ExtractIpFromJson(body_str) ==
    IF IsNull(body_str) THEN Ok(JNone)
    ELSE LET body_data == IF IsStr(body_str) THEN JsonLoads(body_str) ELSE Ok(JInt)
             inner == IF body_data.exc # "none" THEN body_data
                      ELSE PyGet(body_data.val, "ipAddress", JNone)
             outer == IF inner.exc # "none" THEN inner
                      ELSE PyGet(body_data.val, "ip", inner.val)
         IN  Try(outer, AnyException, JNone)

JsonRows ==
    [body : Bodies, body_parsed : {JAbsent}, ip_address : {JAbsent},
     browser_user_agent : {Absent}, card_bin_country : {Absent},
     billing_country : {Absent}, user_email : {Absent}]

InitJson ==
    /\ prog = "json" /\ fn = "none" /\ raised = "none" /\ users = <<>>
    /\ processing_stats = NoStats
    /\ cols = {"body"}
    /\ df \in Tables(JsonRows)
    /\ reader = "none"
    /\ GeoOff

\* The exception that leaves a column-wise apply whose calls had the outcomes
\* outs: that of the first row that raised, "none" when no row raised.
FirstRaised(outs) ==
    IF \E i \in DOMAIN outs : outs[i].exc # "none"
    THEN LET i == CHOOSE k \in DOMAIN outs :
                    /\ outs[k].exc # "none"
                    /\ \A j \in 1..(k - 1) : outs[j].exc = "none"
         IN  outs[i].exc
    ELSE "none"
\* The values the calls returned.
Returned(outs) == [i \in DOMAIN outs |-> outs[i].val]

\* fraud_detection_app.extract_json_fields.
ExtractJsonFields ==
    /\ prog = "json" /\ fn = "none"
    /\ fn' = "extract_json_fields"
    /\ LET outs == [i \in DOMAIN df |-> TryParseJson(df[i].body)]
       IN  /\ raised' = FirstRaised(outs)
           /\ df' = IF raised' = "none"
                    THEN SetCol(df, "body_parsed", Returned(outs)) ELSE df
    /\ cols' = IF raised' = "none" THEN cols \cup {"body_parsed"} ELSE cols
    /\ UNCHANGED <<prog, users, processing_stats>>
    /\ UNCHANGED geoVars

\* One extracted column of _extract_body_data.
ExtractColumn(d, col) ==
    SetCol(d, col,
           [i \in DOMAIN d |-> ExtractFromBody(d[i].body, ExtractionFields[col]).val])

\* EnhancedDataProcessor._extract_body_data.
ExtractBodyData ==
    /\ prog = "json" /\ fn = "none"
    /\ fn' = "_extract_body_data"
    /\ raised' = FirstRaised([i \in DOMAIN df |->
                    ExtractFromBody(df[i].body, ExtractionFields.browser_user_agent)])
    /\ df' = IF raised' = "none"
             THEN ExtractColumn(ExtractColumn(ExtractColumn(ExtractColumn(df,
                     "browser_user_agent"), "card_bin_country"),
                     "billing_country"), "user_email")
             ELSE df
    /\ cols' = IF raised' = "none" THEN cols \cup DOMAIN ExtractionFields ELSE cols
    /\ UNCHANGED <<prog, users, processing_stats>>
    /\ UNCHANGED geoVars

\* ultimate_payment_analysis_dashboard.parse_body_json, the ip_address column
\* (line 150); an exception is caught at line 172 and the table returned.
ParseBodyJson ==
    /\ prog = "json" /\ fn = "none"
    /\ fn' = "parse_body_json"
    /\ LET outs == [i \in DOMAIN df |->
                      IF ~IsNull(df[i].body) THEN ExtractIpFromJson(df[i].body)
                      ELSE Ok(JNone)]
       IN  /\ df' = IF FirstRaised(outs) = "none"
                    THEN SetCol(df, "ip_address", Returned(outs)) ELSE df
           /\ cols' = IF FirstRaised(outs) = "none"
                      THEN cols \cup {"ip_address"} ELSE cols
    /\ UNCHANGED <<prog, users, raised, processing_stats>>
    /\ UNCHANGED geoVars

SpecJsonNext ==
    \/ ExtractJsonFields
    \/ ExtractBodyData
    \/ ParseBodyJson

SpecJson == InitJson /\ [][SpecJsonNext]_vars

\* A body that is empty, is not valid JSON, or is not a string.
UnparsableBody(body) == body \in {NoneVal, NaN, Int5} \cup InvalidJson

\* C5: JSON parsing is total. Whatever the body cells hold (valid JSON,
\* invalid JSON, empty string, None, NaN, a number), no parsing function
\* raises, each returns its table, and the fields extracted from a body that
\* cannot be parsed are null.
C5_JsonParsingTotal ==
    prog = "json" =>
        /\ raised = "none"
        /\ fn = "extract_json_fields" =>
              /\ "body_parsed" \in cols
              /\ \A i \in DOMAIN df :
                    UnparsableBody(df[i].body) => df[i].body_parsed = JNone
        /\ fn = "_extract_body_data" =>
              /\ DOMAIN ExtractionFields \subseteq cols
              /\ \A i \in DOMAIN df : UnparsableBody(df[i].body) =>
                    \A col \in DOMAIN ExtractionFields : df[i][col] = NoneVal
        /\ fn = "parse_body_json" =>
              /\ "ip_address" \in cols
              /\ \A i \in DOMAIN df :
                    UnparsableBody(df[i].body) => df[i].ip_address = JNone

\* ------------------------------------------- EnhancedDataProcessor.process
\* _clean_data on a cell of a string column: astype(str).str.strip(), then
\* the text 'nan' becomes NaN.
CleanCell(v) == IF v \in {NaN, "nan"} THEN NaN ELSE StripText(v)

\* _is_suspicious_user_agent, the pattern list of lines 298-301.
ProcessorUaPatterns ==
    {"bot", "crawler", "spider", "scraper", "headless", "phantom", "selenium",
     "webdriver", "automation"}
\* EnhancedDataProcessor._is_suspicious_user_agent.
IsSuspiciousUserAgent(user_agent) ==
    IF user_agent \in {NoneVal, ""} \/ ~IsStr(user_agent) THEN FALSE
    ELSE \E pattern \in ProcessorUaPatterns : Contains(LowerText(user_agent), pattern)

\* A field of the body that extraction_fields lists.
BodyField(body, keys) == ExtractFromBody(body, keys).val

\* _calculate_browser_quality_score for one row: family 3, os 2, a user
\* agent that is not suspicious 3, both screen sizes 2.
BrowserQualityScore(row) ==
    (IF ~IsNull(BodyField(row.body, <<"browser", "family">>)) THEN 3 ELSE 0)
    + (IF ~IsNull(BodyField(row.body, <<"browser", "os">>)) THEN 2 ELSE 0)
    + (IF ~IsSuspiciousUserAgent(row.browser_user_agent) THEN 3 ELSE 0)
    + (IF /\ ~IsNull(BodyField(row.body, <<"browser", "screenWidth">>))
          /\ ~IsNull(BodyField(row.body, <<"browser", "screenHeight">>))
       THEN 2 ELSE 0)

ProcessBodies ==
    {NaN, "nan", "", "{bad", FullBody, DeepBody}
        \cup {UaBody(ua) : ua \in {"Mozilla/5.0", "HeadlessChrome/120"}}
ProcessRows ==
    [body : ProcessBodies, user_email : {NaN, "a"},
     browser_user_agent : {Absent}, card_bin_country : {Absent},
     billing_country : {Absent}, browser_quality_score : {NumNaN}]

InitProcess ==
    /\ prog = "process" /\ fn = "none" /\ raised = "none" /\ users = <<>>
    /\ processing_stats = NoStats
    /\ cols = {"body", "user_email"}
    /\ df \in Tables(ProcessRows)
    /\ reader = "none"
    /\ GeoOff

\* _clean_data: the string cells cleaned, then dropna(how='all').
CleanData(d) ==
    LET cleaned == [i \in DOMAIN d |->
                      [d[i] EXCEPT !.body = CleanCell(@), !.user_email = CleanCell(@)]]
        NotAllNull(row) == ~(IsNull(row.body) /\ IsNull(row.user_email))
    IN  SelectSeq(cleaned, NotAllNull)

\* _enrich_data and _calculate_derived_metrics on the cleaned table.
EnrichData(d) ==
    LET extracted == ExtractColumn(ExtractColumn(ExtractColumn(ExtractColumn(d,
                        "browser_user_agent"), "card_bin_country"),
                        "billing_country"), "user_email")
    IN  [i \in DOMAIN extracted |->
            [extracted[i] EXCEPT !.browser_quality_score = BrowserQualityScore(extracted[i])]]

\* Lines 52-53: the counters after a call that got n rows and returns m.
CountProcessed(stats, n, m) ==
    [stats EXCEPT !.total_processed = @ + n, !.successful_processed = @ + m]

\* A failure counted after the rows were added to total_processed.
CountFailedAfterTotal(stats, n, e) ==
    [stats EXCEPT !.total_processed = @ + n, !.failed_processed = @ + n,
                  !.processing_errors = Append(@, e)]
\* Lines 60-61: the counters after a call that got n rows and failed with e.
CountFailed(stats, n, e) ==
    [stats EXCEPT !.failed_processed = @ + n,
                  !.processing_errors = Append(@, e)]

\* EnhancedDataProcessor.process(df): clean, enrich, transform, derive; the
\* counters are updated on return, failed_processed on an exception, which
\* is raised again.
Process ==
    /\ prog = "process" /\ fn = "none"
    /\ fn' = "process"
    /\ LET cleaned == CleanData(df)
           outs == [i \in DOMAIN cleaned |->
                      ExtractFromBody(cleaned[i].body, ExtractionFields.browser_user_agent)]
       IN  /\ raised' = FirstRaised(outs)
           /\ IF raised' = "none"
              THEN /\ df' = EnrichData(cleaned)
                   /\ cols' = cols \cup DOMAIN ExtractionFields \cup {"browser_quality_score"}
                   /\ processing_stats' =
                         CountProcessed(processing_stats, Len(df), Len(df'))
              ELSE /\ df' = df /\ cols' = cols
                   /\ processing_stats' =
                         CountFailed(processing_stats, Len(df), raised')
    /\ UNCHANGED <<prog, users>>
    /\ UNCHANGED geoVars

\* EnhancedDataProcessor.get_processing_stats: reads the counters.
GetProcessingStats ==
    /\ prog = "process" /\ fn = "process"
    /\ fn' = "get_processing_stats"
    /\ UNCHANGED <<prog, cols, df, users, raised, processing_stats>>
    /\ UNCHANGED geoVars

SpecProcessNext ==
    \/ Process
    \/ GetProcessingStats

SpecProcess == InitProcess /\ [][SpecProcessNext]_vars

\* ------------------------------------------------- process, call after call
\* The input rows the counters may account for.
MaxProcessed == 4

\* The rows of the tables of later calls: a row that is dropped as empty, a
\* row without a body, a row with a body, and a row whose body makes the
\* decoder fail.
CallRows ==
    {row \in ProcessRows :
        \/ row.user_email = NaN /\ row.body \in {NaN, FullBody, DeepBody}
        \/ row.user_email = "a" /\ row.body = ""}

\* The caller passes the next table to process(df).
NextTable(d) ==
    /\ prog = "process" /\ fn # "none"
    /\ processing_stats.total_processed + processing_stats.failed_processed + Len(d)
          <= MaxProcessed
    /\ fn' = "none" /\ raised' = "none"
    /\ df' = d
    /\ cols' = {"body", "user_email"}
    /\ UNCHANGED <<prog, users, processing_stats>>
    /\ UNCHANGED geoVars

SpecCallsNext ==
    \/ Process
    \/ GetProcessingStats
    \/ \E d \in Tables(CallRows) : NextTable(d)

SpecCalls == InitProcess /\ [][SpecCallsNext]_vars

\* C30: a call of process that returns adds the number of rows it was given
\* to total_processed and the number of rows it returns to
\* successful_processed and leaves the failure counters alone; a call that
\* fails adds the number of rows it was given to failed_processed, records
\* the one error and leaves the other two counters alone; and
\* successful_processed never exceeds total_processed.
C30_RowsAccountedOnce ==
    /\ [](processing_stats.successful_processed <= processing_stats.total_processed)
    /\ [][(fn = "none" /\ fn' = "process") =>
            IF raised' = "none"
            THEN /\ processing_stats'.total_processed
                       = processing_stats.total_processed + Len(df)
                 /\ processing_stats'.successful_processed
                       = processing_stats.successful_processed + Len(df')
                 /\ processing_stats'.failed_processed
                       = processing_stats.failed_processed
                 /\ processing_stats'.processing_errors
                       = processing_stats.processing_errors
            ELSE /\ processing_stats'.failed_processed
                       = processing_stats.failed_processed + Len(df)
                 /\ processing_stats'.processing_errors
                       = Append(processing_stats.processing_errors, raised')
                 /\ processing_stats'.total_processed
                       = processing_stats.total_processed
                 /\ processing_stats'.successful_processed
                       = processing_stats.successful_processed]_vars

\* C30 witness: the processor has failed once, and its latest call returned,
\* after calls that returned and together dropped a row.
C30_Witness ==
    /\ prog = "process" /\ fn = "process" /\ raised = "none"
    /\ processing_stats.failed_processed >= 1
    /\ Len(processing_stats.processing_errors) = 1
    /\ processing_stats.total_processed >= 2
    /\ processing_stats.successful_processed < processing_stats.total_processed
    /\ processing_stats.successful_processed > Len(df)

\* process returned a table.
Processed == prog = "process" /\ fn # "none" /\ raised = "none"

\* C11: whenever process returns, the table it returns has as many rows as
\* the table it was given, whatever the rows hold.
C11_SameRowCount ==
    Processed => Len(df) = processing_stats.total_processed

\* C17: the ip_address that parse_body_json writes for a body is the ip
\* found under the top-level ip or client_ip, else under client.ip, else
\* under request.ip_address, and None when the body has no such member, is
\* None or is not valid JSON.
C17_ExtractsNestedIp ==
    (prog = "json" /\ fn = "parse_body_json") =>
        \A i \in DOMAIN df :
            LET body == df[i].body
                loaded == IF IsStr(body) THEN JsonLoads(body) ELSE Err("TypeError")
                paths == <<(<<"ip">>), (<<"client_ip">>), (<<"client", "ip">>),
                           (<<"request", "ip_address">>)>>
                found == {k \in DOMAIN paths :
                             /\ loaded.exc = "none"
                             /\ WalkPath(loaded.val, paths[k]).t = "str"}
                expected == IF found = {} THEN JNone
                            ELSE WalkPath(loaded.val,
                                          paths[CHOOSE k \in found : \A j \in found : k <= j])
            IN  df[i].ip_address = expected

\* ------------------------------------------------------------ risk scores
\* Scores are kept in tenths: 30 is the score 3.0.

\* Sum of the weights w[f] of the indicators f in a set.
RECURSIVE SumWeights(_, _)
SumWeights(S, w) ==
    IF S = {} THEN 0
    ELSE LET f == CHOOSE x \in S : TRUE
         IN  w[f] + SumWeights(S \ {f}, w)

SetMax(S) == CHOOSE x \in S : \A y \in S : y <= x
SetMin(S) == CHOOSE x \in S : \A y \in S : x <= y

HourOf(t) == (t \div 60) % 24

\* The rows of one user, by position.
UserRows(d, u) == {i \in DOMAIN d : d[i].user_email = u}
\* created_at max - min of one user in minutes, NaN when every time is NaT.
TimeSpan(d, u) ==
    LET times == {d[i].created_at : i \in UserRows(d, u)} \ {NaT}
    IN  IF times = {} THEN NumNaN ELSE SetMax(times) - SetMin(times)

\* Series != Series on object columns: a null on either side compares unequal.
PandasNe(a, b) == IsNull(a) \/ IsNull(b) \/ a # b
\* a != b on two Python values: None equals None, NaN equals nothing.
PyNe(a, b) == a = NaN \/ b = NaN \/ a # b

\* AdvancedBodyAnalyzer.risk_factors.
RiskFactors ==
    [geo_mismatch |-> 30, suspicious_browser |-> 25, unusual_speed |-> 20,
     synthetic_data |-> 40, time_anomaly |-> 15]

\* What _detect_synthetic_data adds for each of its indicators.
SyntheticWeights ==
    [suspicious_user_agent |-> RiskFactors.suspicious_browser,
     suspicious_resolution |-> RiskFactors.synthetic_data,
     suspicious_language   |-> 5,
     suspicious_timezone   |-> 5,
     geo_mismatch          |-> RiskFactors.geo_mismatch,
     unusual_hours         |-> RiskFactors.time_anomaly,
     high_velocity         |-> RiskFactors.unusual_speed,
     round_amount          |-> 5,
     suspicious_amount     |-> 10]

\* AdvancedBodyAnalyzer.suspicious_patterns, applied to the cells of the model.
BodyUaPatterns ==
    {"python", "curl", "wget", "postman", "insomnia", "apache-httpclient",
     "okhttp", "requests"}
\* Line 444: str.lower().str.contains('|'.join(patterns), na=False).
SuspiciousUserAgent(ua) ==
    ~IsNull(ua) /\ \E pattern \in BodyUaPatterns : Contains(LowerText(ua), pattern)
SuspiciousResolution(w, h) == <<w, h>> \in {<<"800", "600">>, <<"1024", "768">>}
SuspiciousLanguage(l) == l \in {"en-US", "en-GB", "en-CA", "en-AU"}
SuspiciousTimezone(z) == z \in {"UTC", "GMT", "America/New_York", "Europe/London"}
SuspiciousAmounts == {470, 496, 1878, 1978, 2000, 2313, 2420, 5000}

\* Lines 488-494: transactions_per_hour > 5, where transactions_per_hour is 0
\* for a span of 0 or NaN and count / span otherwise (span in minutes here).
HighVelocityUnguarded(count, span) ==
    span # NumNaN /\ (span = 0 \/ count * 60 > 5 * span)
HighVelocity(count, span) ==
    IF span = NumNaN \/ span = 0 THEN FALSE
    ELSE count * 60 > 5 * span

\* Lines 527-529: processing time scaled to 0..1 between the column's min and
\* max.
SpeedRiskFromMax(pt, lo, hi) == ((pt - hi) * 10) \div (hi - lo)
SpeedRisk(pt, lo, hi) == ((pt - lo) * 10) \div (hi - lo)

\* The dashboard's table as the analyzers get it.
BaseRow ==
    [user_email |-> "a", created_at |-> 720, amount |-> 150,
     processing_time |-> 1, is_successful |-> "True",
     ip_country |-> "US", billing_country |-> "US",
     browser_user_agent |-> "Mozilla/5.0",
     browser_screen_width |-> "1920", browser_screen_height |-> "1080",
     browser_language |-> "de-DE", browser_timezone |-> "Europe/Berlin",
     geo_mismatch |-> Absent, synthetic_score |-> NumNaN, geo_risk |-> NumNaN,
     speed_risk |-> NumNaN, combined_risk_score |-> NumNaN, flags |-> {}]

CountryCells == {"US", "DE", NaN}
DashboardRows ==
    {[BaseRow EXCEPT !.ip_country = a, !.billing_country = b] :
        a \in CountryCells, b \in CountryCells}
    \cup {[BaseRow EXCEPT !.browser_user_agent = ua] : ua \in UserAgents \cup {NaN}}
    \cup {[BaseRow EXCEPT !.browser_screen_width = w[1], !.browser_screen_height = w[2]] :
            w \in {<<"800", "600">>, <<"800.0", "600.0">>}}
    \cup {[BaseRow EXCEPT !.browser_language = "en-US"],
          [BaseRow EXCEPT !.browser_timezone = "UTC"],
          [BaseRow EXCEPT !.is_successful = "False"]}
    \cup {[BaseRow EXCEPT !.amount = a] : a \in {200, 470, 2000}}
    \cup {[BaseRow EXCEPT !.user_email = u, !.created_at = t] :
            u \in {"a", "b", NaN}, t \in {300, 720, 725, NaT}}
    \cup {[BaseRow EXCEPT !.processing_time = pt] : pt \in {2, 3, NumNaN}}
    \cup {[BaseRow EXCEPT !.created_at = t] : t \in {360, 1380}}
    \cup {[BaseRow EXCEPT !.ip_country = "DE", !.browser_user_agent = "curl/8.0",
                         !.browser_screen_width = "800", !.browser_screen_height = "600",
                         !.browser_language = "en-US", !.browser_timezone = "UTC",
                         !.created_at = 300, !.amount = 2000, !.processing_time = 3]}

GeoColumns == {"ip_country", "billing_country"}
DashboardColumns ==
    {"id", "user_email", "created_at", "amount", "processing_time",
     "is_successful", "browser_user_agent", "browser_screen_width",
     "browser_screen_height", "browser_language", "browser_timezone"}
\* A row of a table without the two country columns.
WithoutGeo(row) == [row EXCEPT !.ip_country = Absent, !.billing_country = Absent]

\* _analyze_ip_geographic_patterns, lines 318-319.
AnalyzeIpGeographicPatterns(c, d) ==
    IF GeoColumns \subseteq c
    THEN SetCol(d, "geo_mismatch",
                [i \in DOMAIN d |-> Bool(PandasNe(d[i].ip_country, d[i].billing_country))])
    ELSE d

\* _detect_synthetic_data: the indicators whose mask holds on row i.
SyntheticFlags(d, i) ==
    LET row == d[i]
        u == row.user_email
    IN  {f \in DOMAIN SyntheticWeights :
            \/ f = "suspicious_user_agent" /\ SuspiciousUserAgent(row.browser_user_agent)
            \/ f = "suspicious_resolution"
                  /\ SuspiciousResolution(row.browser_screen_width, row.browser_screen_height)
            \/ f = "suspicious_language" /\ SuspiciousLanguage(row.browser_language)
            \/ f = "suspicious_timezone" /\ SuspiciousTimezone(row.browser_timezone)
            \/ f = "geo_mismatch" /\ row.geo_mismatch = "True"
            \/ f = "unusual_hours" /\ row.created_at # NaT
                  /\ (HourOf(row.created_at) < 6 \/ HourOf(row.created_at) > 23)
            \/ f = "high_velocity" /\ u # NaN
                  /\ HighVelocity(Cardinality(UserRows(d, u)), TimeSpan(d, u))
            \/ f = "round_amount" /\ row.amount % 100 = 0
            \/ f = "suspicious_amount" /\ row.amount \in SuspiciousAmounts}

\* _detect_synthetic_data: synthetic_score starts at 0.0 and every indicator
\* whose mask holds adds its weight.
DetectSyntheticData(d) ==
    [i \in DOMAIN d |->
        [d[i] EXCEPT !.flags = SyntheticFlags(d, i),
                     !.synthetic_score = SumWeights(SyntheticFlags(d, i), SyntheticWeights)]]

\* _analyze_combined_risk_factors, lines 524-535: the speed_risk of one row.
SpeedRiskOf(d, i) ==
    LET pts == {d[k].processing_time : k \in DOMAIN d} \ {NumNaN}
    IN  IF pts # {} /\ SetMax(pts) > SetMin(pts)
        THEN IF d[i].processing_time = NumNaN THEN NumNaN
             ELSE SpeedRisk(d[i].processing_time, SetMin(pts), SetMax(pts))
        ELSE 0

\* sum(axis=1) skips NaN.
SkipNaN(x) == IF x = NumNaN THEN 0 ELSE x

\* _analyze_combined_risk_factors, lines 521-538.
AnalyzeCombinedRiskFactors(d) ==
    [i \in DOMAIN d |->
        LET geo == IF d[i].geo_mismatch = Absent THEN NumNaN
                   ELSE (IF d[i].geo_mismatch = "True" THEN 1 ELSE 0) * RiskFactors.geo_mismatch
            speed == SpeedRiskOf(d, i)
        IN  [d[i] EXCEPT !.geo_risk = geo,
                         !.speed_risk = speed,
                         !.combined_risk_score =
                              d[i].synthetic_score
                              + SkipNaN(geo)
                              + SkipNaN(speed)]]

\* analyze_body_content_impact: the geographic patterns, then the synthetic
\* score, then the combined score, all on the caller's table.
AnalyzeBodyContentImpact ==
    /\ prog = "dashboard" /\ fn = "none"
    /\ fn' = "analyze_body_content_impact"
    /\ df' = AnalyzeCombinedRiskFactors(
                DetectSyntheticData(AnalyzeIpGeographicPatterns(cols, df)))
    /\ cols' = cols
                \cup (IF GeoColumns \subseteq cols THEN {"geo_mismatch", "geo_risk"} ELSE {})
                \cup {"synthetic_score", "speed_risk", "combined_risk_score"}
    /\ UNCHANGED <<prog, users, raised, processing_stats>>
    /\ UNCHANGED geoVars

\* --------------------------------------------- dashboard: risk of each user
\* What create_user_behavior_analysis adds for each of its indicators.
UserWeights ==
    [high_velocity |-> 20, high_failure |-> 15, unusual_amount |-> 10,
     multi_country |-> 5]

\* Sum of the amounts (squared when sq) of the rows I.
RECURSIVE SumAmounts(_, _, _)
SumAmounts(d, I, sq) ==
    IF I = {} THEN 0
    ELSE LET i == CHOOSE x \in I : TRUE
         IN  (IF sq THEN d[i].amount * d[i].amount ELSE d[i].amount)
                + SumAmounts(d, I \ {i}, sq)

\* Lines 454-461: transactions_per_hour exists where time_span_hours > 0 and
\* is compared with 5 (span in minutes here).
UserHighVelocity(count, span) ==
    span # NumNaN /\ span > 0 /\ count * 60 > 5 * span

\* Lines 464-465: failure_rate > 0.5.
UserHighFailure(d, I) ==
    2 * Cardinality({i \in I : d[i].is_successful = "False"}) > Cardinality(I)

\* Lines 468-471: amount_std / amount_mean > 2.0 with the sample standard
\* deviation, squared and cleared of fractions (amounts are positive).
UserUnusualAmount(d, I) ==
    LET n == Cardinality(I)
        sum == SumAmounts(d, I, FALSE)
    IN  n > 1 /\ n * (n * SumAmounts(d, I, TRUE) - sum * sum) > 4 * (n - 1) * sum * sum

\* Lines 488-492: pd.cut(risk_score, bins=[0, 1, 3, 5, inf]) with the four
\* labels; the bins are open on the left and closed on the right, and a score
\* in no bin gets NaN (scores in tenths here).
UserSegment(score) ==
    IF score <= 0 THEN NaN
    ELSE IF score <= 10 THEN "Low Risk"
    ELSE IF score <= 30 THEN "Medium Risk"
    ELSE IF score <= 50 THEN "High Risk"
    ELSE "Very High Risk"

\* create_user_behavior_analysis, lines 421-492: one record per user_email
\* (groupby leaves the null e-mail out).
UserPatterns(c, d) ==
    [u \in {d[i].user_email : i \in DOMAIN d} \ {NaN} |->
        LET I == UserRows(d, u)
            span == TimeSpan(d, u)
            flagged == {f \in DOMAIN UserWeights :
                          \/ f = "high_velocity" /\ UserHighVelocity(Cardinality(I), span)
                          \/ f = "high_failure" /\ UserHighFailure(d, I)
                          \/ f = "unusual_amount" /\ UserUnusualAmount(d, I)
                          \/ f = "multi_country" /\ "bin_country_iso" \in c
                                /\ Cardinality({d[i].billing_country : i \in I} \ {NaN}) > 1}
        IN  [total_transactions |-> Cardinality(I),
             time_span |-> span,
             flags |-> flagged,
             risk_score |-> SumWeights(flagged, UserWeights),
             user_segment |-> UserSegment(SumWeights(flagged, UserWeights))]]

CreateUserBehaviorAnalysis ==
    /\ prog = "dashboard" /\ fn = "none"
    /\ fn' = "create_user_behavior_analysis"
    /\ users' = UserPatterns(cols, df)
    /\ UNCHANGED <<prog, cols, df, raised, processing_stats>>
    /\ UNCHANGED geoVars

\* ------------------------------------------------- fraud detection app
\* RISK_THRESHOLDS; the fraud app's scores are whole numbers.
RiskThresholds ==
    [velocity_high |-> 5, velocity_critical |-> 10, geo_mismatch_score |-> 3,
     velocity_score |-> 2, amount_score |-> 2, time_score |-> 1]
AmountSuspicious == {470, 1978, 1979, 2000, 5000}

\* What calculate_risk_scores adds for each of its risk factors.
FraudWeights ==
    [high_velocity       |-> RiskThresholds.velocity_score,
     critical_velocity   |-> RiskThresholds.velocity_score,
     suspicious_amount   |-> RiskThresholds.amount_score,
     geographic_mismatch |-> RiskThresholds.geo_mismatch_score,
     rapid_succession    |-> RiskThresholds.time_score]

\* str(x).upper()
Upper(x) ==
    CASE x = "us"  -> "US"
      [] x = "nan" -> "NAN"
      [] OTHER     -> x

FraudBase ==
    [body |-> "{}", body_parsed |-> JAbsent, user_email |-> "a",
     billing_country |-> "US", amount |-> 150, ip |-> "8.8.8.8",
     created_at |-> 720, ip_country |-> Absent, geo_mismatch |-> Absent,
     risk_score |-> NumNaN, risk_factors |-> {}]

FraudRows ==
    {[FraudBase EXCEPT !.body = b, !.billing_country = c, !.user_email = u] :
        b \in {"", FullBody}, c \in {"US", "DE", "us", NaN}, u \in {"a", NaN}}
    \cup {[FraudBase EXCEPT !.amount = a] : a \in {470, 2000}}
    \cup {[FraudBase EXCEPT !.ip = NaN]}
    \cup {[FraudBase EXCEPT !.user_email = u, !.created_at = t] :
            u \in {"a", "b"}, t \in {720, 722, 730, NaT}}

FraudColumns ==
    {"id", "body", "user_email", "billing_country", "amount", "ip", "created_at"}

\* extract_user_info on one row: a non-empty dict in body_parsed fills the
\* e-mail and the billing country where the table has none.
ExtractUserInfo(row) ==
    LET j == row.body_parsed
        isDict == j.t = "dict" /\ DOMAIN j.kv # {}
        hasEmail == isDict /\ "email" \in DOMAIN j.kv
        hasCountry == /\ isDict /\ "billing" \in DOMAIN j.kv
                      /\ j.kv.billing.t = "dict"
                      /\ "country" \in DOMAIN j.kv.billing.kv
    IN  [row EXCEPT
            !.user_email = IF hasEmail /\ IsNull(row.user_email)
                           THEN JText(j.kv.email) ELSE @,
            !.billing_country = IF hasCountry /\ IsNull(row.billing_country)
                                THEN JText(j.kv.billing.kv.country) ELSE @]

\* Lines 203-223: what ipinfo.get_location gives for the row's ip.
FraudLocation(rd, row, raw) ==
    IF rd = "open" /\ Truthy(row.ip)
    THEN BundleLookup(rd, PyStr(row.ip), raw)
    ELSE EmptyDict

\* Lines 215-218: the mismatch test on a located row.
FraudGeoMismatch(row, location) ==
    /\ Truthy(row.billing_country)
    /\ Truthy(CountryOf(location))
    /\ Upper(PyStr(row.billing_country)) # Upper(CountryOf(location))

\* Lines 229-238: the row follows another row of its user by less than five
\* minutes in created_at order.
RapidSuccession(d, i) ==
    LET t == d[i].created_at
        earlier == {k \in UserRows(d, d[i].user_email) \ {i} :
                      /\ d[k].created_at # NaT
                      /\ (d[k].created_at < t \/ (d[k].created_at = t /\ k < i))}
    IN  /\ d[i].user_email # NaN
        /\ t # NaT
        /\ earlier # {}
        /\ t - SetMax({d[k].created_at : k \in earlier}) < 5

\* calculate_risk_scores: the risk factors of row i.
FraudFactors(d, i, rd, raw) ==
    LET row == d[i]
        count == IF row.user_email = NaN THEN 0
                 ELSE Cardinality(UserRows(d, row.user_email))
        location == FraudLocation(rd, row, raw)
    IN  {f \in DOMAIN FraudWeights :
            \/ f = "high_velocity" /\ count > RiskThresholds.velocity_high
            \/ f = "critical_velocity" /\ count > RiskThresholds.velocity_critical
            \/ f = "suspicious_amount" /\ row.amount \in AmountSuspicious
            \/ f = "geographic_mismatch" /\ Truthy(location)
                  /\ FraudGeoMismatch(row, location)
            \/ f = "rapid_succession" /\ RapidSuccession(d, i)}

\* calculate_risk_scores.
CalculateRiskScores(d, rd, raw) ==
    [i \in DOMAIN d |->
        LET location == FraudLocation(rd, d[i], raw)
            factors == FraudFactors(d, i, rd, raw)
        IN  [d[i] EXCEPT
                !.ip_country = IF Truthy(location) THEN CountryOf(location) ELSE @,
                !.geo_mismatch =
                    IF Truthy(location) /\ Truthy(d[i].billing_country)
                       /\ Truthy(CountryOf(location))
                    THEN Bool(FraudGeoMismatch(d[i], location)) ELSE @,
                !.risk_factors = factors,
                !.risk_score = SumWeights(factors, FraudWeights)]]

\* The fraud app's processing of an uploaded table, lines 304-306:
\* extract_json_fields, extract_user_info, calculate_risk_scores.
ProcessUpload(raw) ==
    /\ prog = "fraud" /\ fn = "none"
    /\ fn' = "calculate_risk_scores"
    /\ LET parsed == SetCol(df, "body_parsed",
                            [i \in DOMAIN df |-> TryParseJson(df[i].body).val])
           filled == [i \in DOMAIN parsed |-> ExtractUserInfo(parsed[i])]
       IN  df' = CalculateRiskScores(filled, reader, raw)
    /\ cols' = cols \cup {"body_parsed", "risk_score", "risk_factors"}
    /\ UNCHANGED <<prog, users, raised, processing_stats>>
    /\ UNCHANGED geoVars

\* ------------------------------------------- integration manager: geo risk
\* What _calculate_geographic_risk adds for each of its conditions.
GeoRiskWeights ==
    [country_mismatch |-> 30, high_risk_combination |-> 20,
     high_risk_ip_country |-> 20, high_risk_bin_country |-> 15,
     vpn_proxy |-> 25, datacenter |-> 10]
\* min(score, 10.0)
GeoRiskCap == 100
\* A cap at half the scale.
NormalizeScoreToHalf(score) == IF score < 50 THEN score ELSE 50
\* Line 171: min(score, 10.0).
NormalizeScore(score) == IF score < GeoRiskCap THEN score ELSE GeoRiskCap

HighRiskCountries == {"XX", "YY", "ZZ"}
HighRiskCombination(ip_country, bin_country) ==
    \/ ip_country \in {"US", "CA"} /\ bin_country \in {"RU", "CN", "IR"}
    \/ ip_country \in {"RU", "CN"} /\ bin_country \in {"US", "CA", "EU"}
    \/ ip_country \in {"EU"} /\ bin_country \in {"RU", "CN", "IR"}

\* ip_org.lower()
LowerOrg(org) == IF org = "VPN" THEN "vpn" ELSE org

\* row.get(col, default)
RowGet(c, row, col, default) == IF col \in c THEN row[col] ELSE default

EnrichedColumns == {"ip_address", "ip_country", "ip_org"}
IntegrationBodies == {"", "{}"} \cup {BinBody(c) : c \in BinCountries}
IntegrationBase ==
    [body |-> BinBody("US"), ip_country |-> "US", ip_org |-> "Comcast",
     card_bin_country |-> Absent, geo_risk_score |-> NumNaN, flags |-> {}]
\* Rows after enrich_dataframe wrote ip_country and ip_org for some row.
EnrichedRows ==
    {[IntegrationBase EXCEPT !.body = b, !.ip_country = c] :
        b \in IntegrationBodies, c \in {"US", "XX", NaN}}
    \cup {[IntegrationBase EXCEPT !.ip_org = o] : o \in {"VPN", "amazon", NaN}}
    \cup {[IntegrationBase EXCEPT !.body = BinBody("XX"), !.ip_country = "YY",
                                  !.ip_org = o] : o \in {"VPN", "Comcast"}}
\* Rows of a table no lookup enriched: the ip_ columns do not exist.
PlainRows ==
    {[IntegrationBase EXCEPT !.body = b, !.ip_country = Absent, !.ip_org = Absent] :
        b \in IntegrationBodies}

\* _calculate_geographic_risk: the conditions that hold on a row.
GeoRiskFlags(c, row) ==
    LET ip_country == RowGet(c, row, "ip_country", NoneVal)
        bin_country == RowGet(c, row, "card_bin_country", NoneVal)
        mismatch == PyNe(ip_country, bin_country)
        got == RowGet(c, row, "ip_org", "")
        ip_org == IF Truthy(got) THEN got ELSE ""
    IN  {f \in DOMAIN GeoRiskWeights :
            \/ f = "country_mismatch" /\ mismatch
            \/ f = "high_risk_combination" /\ mismatch
                  /\ HighRiskCombination(ip_country, bin_country)
            \/ f = "high_risk_ip_country" /\ ip_country \in HighRiskCountries
            \/ f = "high_risk_bin_country" /\ bin_country \in HighRiskCountries
            \/ f = "vpn_proxy" /\ ip_org # NaN
                  /\ LowerOrg(ip_org) \in {"vpn", "proxy", "tor"}
            \/ f = "datacenter" /\ ip_org # NaN
                  /\ LowerOrg(ip_org) \in {"amazon", "google", "microsoft", "cloudflare"}}

\* _calculate_geographic_risk.
CalculateGeographicRisk(c, d) ==
    [i \in DOMAIN d |->
        LET score == SumWeights(GeoRiskFlags(c, d[i]), GeoRiskWeights)
        IN  [d[i] EXCEPT !.flags = GeoRiskFlags(c, d[i]),
                         !.geo_risk_score = NormalizeScore(score)]]

\* IntegrationManager.process_transaction_data on a table with a body column:
\* the processor extracts card_bin_country from the body, the table is
\* enriched (the ip_ columns of the row are the outcome), and the geographic
\* risk is computed.
ProcessTransactionData ==
    /\ prog = "integration" /\ fn = "none"
    /\ fn' = "process_transaction_data"
    /\ LET outs == [i \in DOMAIN df |->
                      ExtractFromBody(df[i].body, ExtractionFields.card_bin_country)]
       IN  /\ raised' = FirstRaised(outs)
           /\ cols' = IF raised' = "none"
                      THEN cols \cup {"card_bin_country", "geo_risk_score"} ELSE cols
           /\ df' = IF raised' = "none"
                    THEN CalculateGeographicRisk(cols \cup {"card_bin_country"},
                            SetCol(df, "card_bin_country", Returned(outs)))
                    ELSE df
    /\ UNCHANGED <<prog, users, processing_stats>>
    /\ UNCHANGED geoVars

\* The smallest number of transactions of one user that the fraud app counts
\* as high velocity, and tables in which one user makes that many
\* transactions at one timestamp.
BurstRows == RiskThresholds.velocity_high + 1
FraudBurst == [i \in 1..BurstRows |-> FraudBase]
DashboardBurst == [i \in 1..BurstRows |-> BaseRow]

InitRisk ==
    /\ fn = "none" /\ raised = "none" /\ users = <<>>
    /\ processing_stats = NoStats
    /\ GeoOff
    /\ \/ /\ prog = "dashboard" /\ reader = "none"
          /\ \/ /\ cols = DashboardColumns \cup GeoColumns
                /\ df \in Tables(DashboardRows) \cup {DashboardBurst}
             \/ /\ cols = DashboardColumns
                /\ df \in Tables({WithoutGeo(row) : row \in DashboardRows})
       \/ /\ prog = "fraud" /\ reader \in {"none", "open"}
          /\ cols = FraudColumns
          /\ df \in Tables(FraudRows) \cup {FraudBurst}
       \/ /\ prog = "integration" /\ reader = "none"
          /\ \/ /\ cols = {"id", "body", "ip"} \cup EnrichedColumns
                /\ df \in Tables(EnrichedRows)
             \/ /\ cols = {"id", "body"}
                /\ df \in Tables(PlainRows)

\* The reader outcomes that matter for a fraud table: one when no row is
\* looked up.
UploadInputs ==
    IF reader = "open" /\ \E i \in DOMAIN df : df[i].ip # NaN
    THEN RawOutcomes("ipinfo") ELSE {NoneVal}

SpecRiskNext ==
    \/ AnalyzeBodyContentImpact
    \/ CreateUserBehaviorAnalysis
    \/ \E raw \in UploadInputs : ProcessUpload(raw)
    \/ ProcessTransactionData

SpecRisk == InitRisk /\ [][SpecRiskNext]_vars

\* ---------------------------------------------------- claims C2, C3, C9, C10
BodyAnalysed == prog = "dashboard" /\ fn = "analyze_body_content_impact"
UsersAnalysed == prog = "dashboard" /\ fn = "create_user_behavior_analysis"
FraudScored == prog = "fraud" /\ fn = "calculate_risk_scores"
GeoRiskScored ==
    prog = "integration" /\ fn = "process_transaction_data" /\ raised = "none"

\* The user of row i has exactly one transaction in the table.
SingleTransaction(d, i) ==
    d[i].user_email # NaN /\ Cardinality(UserRows(d, d[i].user_email)) = 1

\* C2: every per-row score a scorer produces is non-negative: the synthetic
\* score and the combined risk score of the body analyzer, the fraud app's
\* risk score, the integration manager's geographic risk score, and the
\* dashboard's per-user risk score.
C2_ScoresNonNegative ==
    /\ BodyAnalysed => \A i \in DOMAIN df :
          df[i].synthetic_score >= 0 /\ df[i].combined_risk_score >= 0
    /\ UsersAnalysed => \A u \in DOMAIN users : users[u].risk_score >= 0
    /\ FraudScored => \A i \in DOMAIN df : df[i].risk_score >= 0
    /\ GeoRiskScored => \A i \in DOMAIN df : df[i].geo_risk_score >= 0

\* C2 witness: the body analyzer scored a table in which one row has a
\* positive synthetic score and a positive speed risk on top of it.
C2_Witness ==
    /\ BodyAnalysed
    /\ \E i \in DOMAIN df :
          /\ df[i].synthetic_score > 0
          /\ df[i].speed_risk > 0
          /\ df[i].combined_risk_score > df[i].synthetic_score

\* C3: a user with exactly one transaction gets no velocity-derived risk: no
\* high-velocity weight in the body analyzer's synthetic score, none in the
\* dashboard's per-user score, no velocity or rapid-succession factor in the
\* fraud app's score.
C3_SingleTransactionNoVelocity ==
    /\ BodyAnalysed => \A i \in DOMAIN df :
          SingleTransaction(df, i) => "high_velocity" \notin df[i].flags
    /\ UsersAnalysed => \A u \in DOMAIN users :
          users[u].total_transactions = 1 => "high_velocity" \notin users[u].flags
    /\ FraudScored => \A i \in DOMAIN df :
          SingleTransaction(df, i) =>
              df[i].risk_factors \cap
                  {"high_velocity", "critical_velocity", "rapid_succession"} = {}

\* C3 witness: the body analyzer scored a table in which one user has a single
\* dated transaction (a time span of 0) and got a score without the velocity
\* weight.
C3_Witness ==
    /\ BodyAnalysed
    /\ \E i \in DOMAIN df :
          /\ SingleTransaction(df, i)
          /\ df[i].created_at # NaT
          /\ TimeSpan(df, df[i].user_email) = 0
          /\ "high_velocity" \notin df[i].flags
          /\ df[i].synthetic_score = SumWeights(df[i].flags, SyntheticWeights)

\* C9: a row's combined risk score is the sum of the weights of the indicators
\* flagged on the row, each counted once, next to the row's speed risk; so a
\* flagged geo_mismatch adds exactly 3.0.
C9_ScoreIsSumOfWeights ==
    BodyAnalysed => \A i \in DOMAIN df :
        df[i].combined_risk_score - SkipNaN(df[i].speed_risk)
            = SumWeights(df[i].flags, SyntheticWeights)

\* C10: a row whose body is empty, so that a country it is compared on is
\* null, is not flagged as a geographic mismatch and gets no mismatch weight,
\* in the body analyzer, the integration manager and the fraud app.
C10_NullCountryIsNoMismatch ==
    /\ BodyAnalysed => \A i \in DOMAIN df :
          (IsNull(df[i].ip_country) \/ IsNull(df[i].billing_country)) =>
              df[i].geo_mismatch # "True" /\ "geo_mismatch" \notin df[i].flags
    /\ GeoRiskScored => \A i \in DOMAIN df :
          df[i].body = "" => "country_mismatch" \notin df[i].flags
    /\ FraudScored => \A i \in DOMAIN df :
          (df[i].body = "" /\ IsNull(df[i].billing_country)) =>
              "geographic_mismatch" \notin df[i].risk_factors

\* C16: _detect_synthetic_data flags the user agent of a row, and adds the
\* weight 2.5 for it, when the user agent contains one of the substrings
\* python, curl, selenium, headless, bot in any case; a missing user agent
\* and an ordinary browser's are not flagged.
C16_BotUserAgentsSuspicious ==
    BodyAnalysed =>
        \A i \in DOMAIN df :
            LET ua == df[i].browser_user_agent
                flagged == "suspicious_user_agent" \in df[i].flags
                known == /\ ~IsNull(ua)
                         /\ \E pattern \in {"python", "curl", "selenium", "headless", "bot"} :
                               Contains(LowerText(ua), pattern)
            IN  /\ known => flagged /\ df[i].synthetic_score >= 25
                /\ (IsNull(ua) \/ ua = "Mozilla/5.0") => ~flagged

\* ------------------------------------------------------------ claim C23
\* C23: the body analyzer sets the time_anomaly indicator (weight 1.5) on
\* exactly the rows whose created_at hour is outside [6,23): hours 0-5 and
\* hour 23, and on no other row.
C23_TimeAnomalyOutsideSixToTwentyThree ==
    BodyAnalysed =>
        \A i \in DOMAIN df :
            "unusual_hours" \in df[i].flags
                <=> (df[i].created_at # NaT /\ HourOf(df[i].created_at) \notin 6..22)

\* ------------------------------------------------------------ claim C24
\* Every transaction of the user of row i carries the same timestamp.
ZeroTimeSpan(d, i) ==
    /\ d[i].user_email # NaN
    /\ \A k \in UserRows(d, d[i].user_email) : d[k].created_at # NaT
    /\ TimeSpan(d, d[i].user_email) = 0

\* C24: a user whose transactions all carry the same timestamp gets no
\* velocity risk, however many transactions the user has: no high-velocity
\* weight in the body analyzer's synthetic score, none in the dashboard's
\* per-user score, no velocity or rapid-succession factor in the fraud app's
\* score.
C24_ZeroTimeSpanNoVelocity ==
    /\ BodyAnalysed => \A i \in DOMAIN df :
          ZeroTimeSpan(df, i) => "high_velocity" \notin df[i].flags
    /\ UsersAnalysed => \A u \in DOMAIN users :
          users[u].time_span = 0 => "high_velocity" \notin users[u].flags
    /\ FraudScored => \A i \in DOMAIN df :
          ZeroTimeSpan(df, i) =>
              df[i].risk_factors \cap
                  {"high_velocity", "critical_velocity", "rapid_succession"} = {}

C27_MissingColumnContributesNothing ==
    /\ BodyAnalysed => \A i \in DOMAIN df :
          ~(GeoColumns \subseteq cols) =>
              /\ "geo_mismatch" \notin df[i].flags
              /\ df[i].geo_risk = NumNaN
              /\ df[i].combined_risk_score
                    = df[i].synthetic_score + SkipNaN(df[i].speed_risk)
    /\ GeoRiskScored => \A i \in DOMAIN df :
          /\ ~({"ip_country", "card_bin_country"} \subseteq cols) =>
                df[i].flags \cap {"country_mismatch", "high_risk_combination"} = {}
          /\ "ip_country" \notin cols => "high_risk_ip_country" \notin df[i].flags
          /\ "ip_org" \notin cols =>
                df[i].flags \cap {"vpn_proxy", "datacenter"} = {}

\* ------------------------------------------------------------ claim C28
\* The risk tiers of the dashboard's user segmentation.
UserSegments == {"Low Risk", "Medium Risk", "High Risk", "Very High Risk"}

\* C28: every user of the user analysis, a user with a risk score of 0
\* included, is assigned one of the risk tiers.
C28_EveryScoreHasATier ==
    UsersAnalysed => \A u \in DOMAIN users : users[u].user_segment \in UserSegments

\* ------------------------------------------------------------ claim C29
\* C29: a processing or scoring step leaves every ingested field of every
\* row as it was: the table has the same rows afterwards, and a column the
\* table had before the step holds the same value in each row.
C29_IngestedFieldsUnchanged ==
    [][fn' # fn =>
          /\ Len(df') = Len(df)
          /\ \A i \in DOMAIN df : \A c \in cols \cap DOMAIN df[i] :
                df'[i][c] = df[i][c]]_vars

\* ======================================================= missing columns
\* The columns a table given to the analysis functions may or may not have.
AnalysisColumns ==
    {"id", "amount", "is_successful", "processing_time", "created_at",
     "user_email", "ip_country", "billing_country", "browser_language"}

\* The rows of such a table: which exception a function raises is decided
\* by the columns present and the number of rows, not by the cells.
ColumnTables == {[i \in 1..n |-> [row |-> i]] : n \in 0..MaxRows}

\* The first exception of a sequence of calls, "none" when none raised.
FirstError(errs) ==
    IF \E i \in DOMAIN errs : errs[i] # "none"
    THEN errs[CHOOSE k \in DOMAIN errs :
                /\ errs[k] # "none"
                /\ \A j \in 1..(k - 1) : errs[j] = "none"]
    ELSE "none"

\* _analyze_browser_impact: the language analysis is gated on its own column
\* only, and aggregates is_successful and processing_time ('count' of the
\* column when it is absent, which agg rejects as well).
AnalyzeBrowserImpactRaises(c) ==
    IF "browser_language" \in c /\ ~({"is_successful", "processing_time"} \subseteq c)
    THEN "KeyError" ELSE "none"

\* _analyze_ip_geographic_patterns: gated on the country columns, it
\* aggregates is_successful, processing_time and amount.
AnalyzeIpGeographicPatternsRaises(c) ==
    IF /\ "ip_country" \in c
       /\ \/ ~({"is_successful", "amount"} \subseteq c)
          \/ "billing_country" \in c /\ "processing_time" \notin c
    THEN "KeyError" ELSE "none"

\* _detect_synthetic_data: the velocity check counts 'id', and the summary
\* groups by is_successful, neither gated.
DetectSyntheticDataRaises(c) ==
    IF {"created_at", "user_email"} \subseteq c /\ "id" \notin c THEN "KeyError"
    ELSE IF "is_successful" \notin c THEN "KeyError"
    ELSE "none"

\* _analyze_combined_risk_factors: on a table with rows it aggregates
\* is_successful and amount and selects id, is_successful and amount.
AnalyzeCombinedRiskFactorsRaises(c, n) ==
    IF n > 0 /\ ~({"id", "amount", "is_successful"} \subseteq c)
    THEN "KeyError" ELSE "none"

\* analyze_body_content_impact: the sub-analyses in order; the speed
\* analysis and the hidden dependencies are gated or guarded throughout.
AnalyzeBodyContentImpactRaises(c, n) ==
    FirstError(<<AnalyzeBrowserImpactRaises(c),
                 AnalyzeIpGeographicPatternsRaises(c),
                 DetectSyntheticDataRaises(c),
                 AnalyzeCombinedRiskFactorsRaises(c, n)>>)

\* analyze_conversion_factors returns {} without is_successful, and
\* calculate_conversion_impact then reads analysis['factors']; pd.cut of the
\* amount column into 5 bins rejects an empty column.
CalculateConversionImpactRaises(c, n) ==
    IF "is_successful" \notin c THEN "KeyError"
    ELSE IF "amount" \in c /\ n = 0 THEN "ValueError"
    ELSE "none"

InitColumns ==
    /\ prog = "columns" /\ fn = "none" /\ raised = "none" /\ users = <<>>
    /\ processing_stats = NoStats
    /\ cols \in SUBSET AnalysisColumns
    /\ df \in ColumnTables
    /\ reader = "none"
    /\ GeoOff

\* run_advanced_body_analysis(df): the columns the sub-analyses add before
\* the first exception stay on the caller's table.
RunAdvancedBodyAnalysis ==
    /\ prog = "columns" /\ fn = "none"
    /\ fn' = "run_advanced_body_analysis"
    /\ raised' = AnalyzeBodyContentImpactRaises(cols, Len(df))
    /\ LET geo == IF GeoColumns \subseteq cols /\ AnalyzeBrowserImpactRaises(cols) = "none"
                  THEN {"geo_mismatch"} ELSE {}
           syn == IF /\ AnalyzeBrowserImpactRaises(cols) = "none"
                     /\ AnalyzeIpGeographicPatternsRaises(cols) = "none"
                  THEN {"synthetic_score"} ELSE {}
           com == IF raised' = "none" /\ Len(df) > 0
                  THEN {"combined_risk_score"} ELSE {}
       IN  cols' = cols \cup geo \cup syn \cup com
    /\ UNCHANGED <<prog, df, users, processing_stats>>
    /\ UNCHANGED geoVars

\* AdvancedConversionOptimizer.calculate_conversion_impact(df).
CalculateConversionImpact ==
    /\ prog = "columns" /\ fn = "none"
    /\ fn' = "calculate_conversion_impact"
    /\ raised' = CalculateConversionImpactRaises(cols, Len(df))
    /\ cols' = IF {"is_successful", "amount"} \subseteq cols /\ Len(df) > 0
               THEN cols \cup {"amount_bin"} ELSE cols
    /\ UNCHANGED <<prog, df, users, processing_stats>>
    /\ UNCHANGED geoVars

SpecColumnsNext ==
    \/ RunAdvancedBodyAnalysis
    \/ CalculateConversionImpact

SpecColumns == InitColumns /\ [][SpecColumnsNext]_vars

\* C12: an analysis function given a table that lacks columns (down to the
\* table with only id, amount and is_successful, and the table without rows)
\* returns without raising.
C12_MissingColumnsTolerated ==
    prog = "columns" /\ fn # "none" => raised = "none"

\* ======================================================= load and score
\* np.random.uniform(1, 30, len(df)): the seconds one draw can give a row.
RandomTimes == {1, 2, 3}

\* The rows of an uploaded file with created_at, and updated_at where the
\* file has that column.
PipelineRows ==
    {[BaseRow EXCEPT !.created_at = t, !.processing_time = NumNaN,
                     !.browser_user_agent = ua] @@ [updated_at |-> t + dt] :
        t \in {300, 720}, dt \in {1, 2}, ua \in {"Mozilla/5.0", "curl/8.0"}}

\* load_and_process_data, lines 104-109: processing_time is updated_at -
\* created_at when the file has both columns, and a random draw per row when
\* it has created_at only.
LoadProcessingTime(c, row, draw) ==
    IF {"created_at", "updated_at"} \subseteq c THEN row.updated_at - row.created_at
    ELSE IF "created_at" \in c THEN draw
    ELSE NumNaN

\* load_and_process_data on the uploaded file: the table as loaded, nothing
\* scored yet.
LoadedTable(c, d, draws) ==
    [i \in DOMAIN d |->
        [d[i] EXCEPT !.processing_time = LoadProcessingTime(c, d[i], draws[i]),
                     !.geo_mismatch = Absent, !.synthetic_score = NumNaN,
                     !.geo_risk = NumNaN, !.speed_risk = NumNaN,
                     !.combined_risk_score = NumNaN, !.flags = {}]]

\* The uploaded file's columns.
UploadColumns == (DashboardColumns \ {"processing_time"}) \cup GeoColumns

InitPipeline ==
    /\ prog = "pipeline" /\ fn = "none" /\ raised = "none" /\ users = <<>>
    /\ processing_stats = NoStats
    /\ cols \in {UploadColumns, UploadColumns \cup {"updated_at"}}
    /\ df \in Tables(PipelineRows)
    /\ reader = "none"
    /\ GeoOff

\* The dashboard on an uploaded file: load_and_process_data, then
\* run_advanced_body_analysis on the loaded table.  The file is the same on
\* every run; draws are the random numbers of this run.
LoadAndScore(draws) ==
    /\ prog = "pipeline"
    /\ fn' = "run_advanced_body_analysis"
    /\ LET file == cols \cap (UploadColumns \cup {"updated_at"})
           loaded == LoadedTable(file, df, draws)
       IN  /\ df' = AnalyzeCombinedRiskFactors(
                       DetectSyntheticData(AnalyzeIpGeographicPatterns(file, loaded)))
           /\ cols' = file \cup {"processing_time", "geo_mismatch", "geo_risk",
                                 "synthetic_score", "speed_risk", "combined_risk_score"}
    /\ UNCHANGED <<prog, users, raised, processing_stats>>
    /\ UNCHANGED geoVars

SpecPipelineNext == \E draws \in [DOMAIN df -> RandomTimes] : LoadAndScore(draws)

SpecPipeline == InitPipeline /\ [][SpecPipelineNext]_vars

\* C15: loading and scoring the same file a second time gives every row the
\* combined risk score the first run gave it.
C15_ScoringDeterministic ==
    [][(prog = "pipeline" /\ fn = "run_advanced_body_analysis")
          => \A i \in DOMAIN df :
                df'[i].combined_risk_score = df[i].combined_risk_score]_vars

====
